-------------------------- MODULE ExecutionProofs --------------------------
(***************************************************************************)
(* Theorems about what is executed and what is recorded of it, given fresh *)
(* reads and groups that stay: a command is executed at most once, and the *)
(* history is right until a call fails.                                    *)
(***************************************************************************)
EXTENDS WorkerProofs

OnJob(g) == job # Idle /\ job.g = g

----------------------------------------------------------------------------
(***************************************************************************)
(* Every command given to a group is in one place at most: in the plugin   *)
(* of a user who has decided on it, in the annotation, in the hands of the *)
(* worker, or in the history.  A command in the annotation counts only if  *)
(* it is still to be carried out: not if it is the one the worker is       *)
(* carrying out, nor if the group is already where it would put it.        *)
(***************************************************************************)

Goal(g) == IF OnJob(g) THEN job.cmd ELSE State(g)

Waiting(g) == IF CommandOf(g) \in {"none", Goal(g)} THEN 0 ELSE 1

InFlight(g) == IF OnJob(g) /\ job.pc # "consume" THEN 1 ELSE 0

Accounted(g) == Len(History(g)) + InFlight(g) + Waiting(g)

Sessions(g) == {u \in User : cli[u].g = g}

OnceInv == \A g \in Group : Accounted(g) + Cardinality(Sessions(g)) <= commands[g]

LEMMA AccountedType ==
    ASSUME TypeOK, NEW g \in Group
    PROVE  /\ History(g) \in HistoryList /\ Len(History(g)) \in Nat
           /\ Accounted(g) \in Nat /\ Len(History(g)) <= Accounted(g)
  <1>1. History(g) \in HistoryList
    BY FeedParts, ObjectParts DEF TypeOK, History
  <1>2. Len(History(g)) \in Nat
    BY <1>1, LenProperties DEF HistoryList
  <1>3. InFlight(g) \in {0, 1} /\ Waiting(g) \in {0, 1}
    BY DEF InFlight, Waiting
  <1> HIDE DEF InFlight, Waiting
  <1> QED
    BY <1>1, <1>2, <1>3 DEF Accounted

LEMMA AccountedTypeNext ==
    ASSUME TypeOK', NEW g \in Group
    PROVE  Accounted(g)' \in Nat
  <1>1. History(g)' \in HistoryList
    BY DEF TypeOK, ClusterTypeOK, Feed, Object, Status, History
  <1>2. Len(History(g))' \in Nat
    BY <1>1, LenProperties DEF HistoryList
  <1>3. InFlight(g)' \in {0, 1} /\ Waiting(g)' \in {0, 1}
    BY DEF InFlight, Waiting
  <1> HIDE DEF InFlight, Waiting
  <1> QED
    BY <1>2, <1>3 DEF Accounted

LEMMA SessionsType ==
    ASSUME NEW g
    PROVE  IsFiniteSet(Sessions(g)) /\ Cardinality(Sessions(g)) \in Nat
  <1>1. IsFiniteSet(Sessions(g))
    BY TypeConstants, FS_Subset DEF Sessions
  <1> QED
    BY <1>1, FS_CardinalityType

\* An entry makes the history longer by one at most.
LEMMA ExtendedLength ==
    ASSUME job \in Job, NEW h \in HistoryList
    PROVE  /\ Len(Extended(h)) \in Nat
           /\ Len(Extended(h)) <= Len(h) + 1
  <1>1. JobEntry \in HistoryEntry /\ h \in Seq(HistoryEntry)
    BY JobParts DEF JobEntry, HistoryEntry, HistoryList
  <1> DEFINE e == <<JobEntry>> \o h
  <1>2. e \in Seq(HistoryEntry) /\ Len(e) = Len(h) + 1 /\ Len(h) \in Nat
    BY <1>1, ConcatProperties, LenProperties
  <1> HIDE DEF e
  <1>3. Len(e) > MaxHistoryEntries => Len(SubSeq(e, 1, MaxHistoryEntries)) = MaxHistoryEntries
    BY <1>2, TypeConstants, SubSeqProperties
  <1>4. Extended(h) = Capped(e)
    BY DEF Extended, e
  <1> QED
    BY <1>2, <1>3, <1>4, TypeConstants DEF Capped

\* A step that changes nothing of this.
Undisturbed(g) ==
    /\ History(g)' = History(g) /\ CommandOf(g)' = CommandOf(g) /\ State(g)' = State(g)
    /\ \/ ~ OnJob(g) /\ ~ OnJob(g)'
       \/ OnJob(g) /\ OnJob(g)' /\ job'.cmd = job.cmd /\ job'.pc = job.pc

LEMMA Same ==
    ASSUME TypeOK, NEW g \in Group, Undisturbed(g)
    PROVE  Accounted(g)' <= Accounted(g)
  <1>1. Waiting(g)' = Waiting(g) /\ InFlight(g)' = InFlight(g)
    BY DEF Undisturbed, Waiting, InFlight, Goal
  <1>2. Accounted(g)' = Accounted(g) /\ Accounted(g) \in Nat
    BY <1>1, AccountedType DEF Undisturbed, Accounted
  <1> QED
    BY <1>2

\* The worker carries out what is accounted for and nothing else.  A command that
\* is cut off goes back to those that wait.
LEMMA WorkerAccounts ==
    ASSUME Calm, TypeOK, CalmInv, OperatorNext, NEW g \in Group
    PROVE  Accounted(g)' <= Accounted(g)
  <1>0. /\ job # Idle => job \in Job /\ job.g \in Group
        /\ History(g) \in HistoryList /\ Len(History(g)) \in Nat
    BY BusyWorker, JobParts, AccountedType DEF TypeOK
  <1>1. WorkerDoes
    BY WorkerActs
  <1>2. CASE UNCHANGED <<sg, wl, job, faults>>
    <2>1. Undisturbed(g)
      BY <1>2 DEF Undisturbed, OnJob, History, CommandOf, State
    <2> QED
      BY <2>1, Same
  <1>3. ASSUME NEW h \in Group, Starts(h)
        PROVE  Accounted(g)' <= Accounted(g)
    <2>1. History(g)' = History(g) /\ CommandOf(g)' = CommandOf(g) /\ State(g)' = State(g)
      BY <1>3 DEF Starts, History, CommandOf, State
    <2>2. CASE g # h
      <3>1. ~ OnJob(g) /\ ~ OnJob(g)'
        BY <1>3, <2>2 DEF Starts, OnJob
      <3>2. Undisturbed(g)
        BY <2>1, <3>1 DEF Undisturbed
      <3> QED
        BY <3>2, Same
    <2>3. CASE g = h
      <3>1. /\ ~ OnJob(g) /\ OnJob(g)' /\ job'.cmd = CommandOf(g) /\ CommandOf(g) # "none"
            /\ job'.pc = "consume" \/ CommandOf(g) # State(g)
        BY <1>3, <2>3 DEF Starts, OnJob
      <3>2. Waiting(g)' = 0 /\ InFlight(g) = 0
        BY <2>1, <3>1 DEF Waiting, InFlight, Goal
      <3>3. CASE job'.pc = "consume"
        <4>1. InFlight(g)' = 0 /\ Waiting(g) \in {0, 1}
          BY <3>3 DEF Waiting, InFlight
        <4> QED
          BY <1>0, <2>1, <3>2, <4>1 DEF Accounted
      <3>4. CASE CommandOf(g) # State(g)
        <4>1. InFlight(g)' \in {0, 1} /\ Waiting(g) = 1
          BY <3>1, <3>4 DEF Waiting, InFlight, Goal
        <4> QED
          BY <1>0, <2>1, <3>2, <4>1 DEF Accounted
      <3> QED
        BY <3>1, <3>3, <3>4
    <2> QED
      BY <2>2, <2>3
  <1>4. CASE Proceeds
    <2>1. History(g)' = History(g) /\ CommandOf(g)' = CommandOf(g) /\ State(g)' = State(g)
      BY <1>4 DEF Proceeds, History, CommandOf, State
    <2>2. job # Idle
      BY <1>4, IdleWorker DEF Proceeds
    <2>3. Undisturbed(g)
      BY <1>4, <2>1, <2>2 DEF Proceeds, SameJob, OnJob, Undisturbed
    <2> QED
      BY <2>3, Same
  <1>5. ASSUME NEW pc, NEW st \in Status, job # Idle, job.pc # "consume", Writes(pc, st),
               \/ pc # "consume" /\ st.history = Held.history
               \/ pc = "consume" /\ st.history = Extended(Held.history)
        PROVE  Accounted(g)' <= Accounted(g)
    <2>1. CASE g # job.g
      <3>1. sg'[g] = sg[g] /\ ~ OnJob(g) /\ ~ OnJob(g)'
        BY <1>5, <2>1 DEF Writes, Rewritten, SameJob, OnJob
      <3>2. Undisturbed(g)
        BY <3>1 DEF Undisturbed, History, CommandOf, State
      <3> QED
        BY <3>2, Same
    <2>2. CASE g = job.g
      <3>1. /\ OnJob(g) /\ OnJob(g)' /\ job'.cmd = job.cmd /\ job'.pc = pc
            /\ CommandOf(g)' = CommandOf(g) /\ History(g)' = st.history /\ History(g) = Held.history
        BY <1>5, <2>2 DEF Writes, Rewritten, SameJob, OnJob, CommandOf, History, Held
      <3>2. Waiting(g)' = Waiting(g) /\ Waiting(g) \in Nat
        BY <3>1 DEF Waiting, Goal
      <3>3. Len(History(g)') + InFlight(g)' <= Len(History(g)) + InFlight(g)
        <4>1. CASE pc # "consume"
          BY <1>0, <1>5, <3>1, <4>1 DEF InFlight
        <4>2. CASE pc = "consume"
          <5>1. Len(History(g)') \in Nat /\ Len(History(g)') <= Len(History(g)) + 1
            BY <1>0, <1>5, <3>1, <4>2, ExtendedLength
          <5> QED
            BY <1>0, <1>5, <3>1, <4>2, <5>1 DEF InFlight
        <4> QED
          BY <4>1, <4>2
      <3>4. /\ Len(History(g)') \in Nat /\ Len(History(g)) \in Nat
            /\ InFlight(g)' \in Nat /\ InFlight(g) \in Nat
        BY <1>0, <1>5, <3>1, ExtendedLength DEF InFlight
      <3> QED
        BY <3>2, <3>3, <3>4 DEF Accounted
    <2> QED
      BY <2>1, <2>2
  <1>6. CASE Collected \/ MarkedDown \/ MarkedUp \/ Appended
    <2>1. job # Idle /\ job.pc # "consume"
      BY <1>6, IdleWorker DEF Collected, MarkedDown, MarkedUp, Appended
    <2> QED
      BY <1>5, <1>6, <2>1 DEF Collected, MarkedDown, MarkedUp, Appended
  <1>7. CASE Finishes
    <2>1. job # Idle /\ job' = Idle /\ ~ OnJob(g)' /\ State(job.g) = job.cmd
          /\ job.local.ann.cmd # "none"
      BY <1>7, IdleWorker DEF Finishes, OnJob, CalmInv, CopyInv
    <2>2. CASE g # job.g
      <3>1. sg'[g] = sg[g] /\ ~ OnJob(g)
        BY <1>7, <2>2 DEF Finishes, Rewritten, OnJob
      <3>2. Undisturbed(g)
        BY <2>1, <3>1 DEF Undisturbed, History, CommandOf, State
      <3> QED
        BY <3>2, Same
    <2>3. CASE g = job.g
      <3>1. History(g)' = History(g) /\ State(g)' = State(g) /\ CommandOf(g)' = Consumed.cmd
        BY <1>7, <2>3 DEF Finishes, Rewritten, History, State, CommandOf, Held
      <3>2. Consumed.cmd = "none"
        BY <2>1 DEF Consumed, MergeAnnotations, Merged, Without, NoAnnotations
      <3> QED
        BY <1>0, <2>1, <2>3, <3>1, <3>2 DEF Accounted, InFlight, Waiting, Goal, OnJob
    <2> QED
      BY <2>2, <2>3
  <1>8. CASE CutOff
    <2>1. History(g)' = History(g) /\ CommandOf(g)' = CommandOf(g) /\ State(g)' = State(g)
          /\ ~ OnJob(g)'
      BY <1>8 DEF CutOff, History, CommandOf, State, OnJob
    <2>2. InFlight(g)' = 0 /\ Waiting(g)' \in {0, 1}
      BY <2>1 DEF InFlight, Waiting
    <2>3. CASE ~ OnJob(g)
      BY <2>1, <2>3, Same DEF Undisturbed
    <2>4. CASE OnJob(g) /\ job.pc = "consume"
      <3>1. Goal(g)' = Goal(g)
        BY <2>1, <2>4 DEF Goal, OnJob, CalmInv, CopyInv
      <3>2. Waiting(g)' = Waiting(g) /\ InFlight(g) = 0
        BY <2>1, <2>4, <3>1 DEF Waiting, InFlight
      <3> QED
        BY <1>0, <2>1, <2>2, <3>2 DEF Accounted
    <2>5. CASE OnJob(g) /\ job.pc # "consume"
      <3>1. InFlight(g) = 1 /\ Waiting(g) \in {0, 1}
        BY <2>5 DEF InFlight, Waiting
      <3> QED
        BY <1>0, <2>1, <2>2, <3>1 DEF Accounted
    <2> QED
      BY <2>3, <2>4, <2>5
  <1> QED
    BY <1>1, <1>2, <1>3, <1>4, <1>6, <1>7, <1>8 DEF WorkerDoes

----------------------------------------------------------------------------
(***************************************************************************)
(* The users: what is written has been counted before.                     *)
(***************************************************************************)

\* A command that is let in is one more to carry out, at most.
LEMMA SubmitAccounts ==
    ASSUME Calm, TypeOK, TypeOK', CalmInv, NEW g \in Group, NEW u \in User,
           NEW ann \in Annotations, Submit(g, u, ann), UNCHANGED job
    PROVE  /\ Accounted(g)' <= Accounted(g) + 1
           /\ \A h \in Group : h # g => Accounted(h)' <= Accounted(h)
  <1>1. /\ History(g)' = History(g)
        /\ \A h \in Group : h # g => Undisturbed(h)
    <2>1. CASE UNCHANGED sg
      BY <2>1 DEF Undisturbed, History, CommandOf, State, OnJob
    <2>2. ASSUME NEW new \in Annotations, Admitted(g, u, ann, new)
          PROVE  <1>1!1 /\ <1>1!2
      BY <2>2 DEF Admitted, Rewritten, Undisturbed, History, CommandOf, State, OnJob
    <2> QED
      BY <2>1, <2>2, SubmitActs
  <1>2. InFlight(g)' = InFlight(g) /\ InFlight(g) \in {0, 1}
    BY DEF InFlight, OnJob
  <1>3. Waiting(g) \in {0, 1} /\ Waiting(g)' \in {0, 1}
    BY DEF Waiting
  <1>4. Len(History(g)) \in Nat
    BY AccountedType
  <1>5. Accounted(g)' <= Accounted(g) + 1
    BY <1>1, <1>2, <1>3, <1>4 DEF Accounted
  <1> QED
    BY <1>1, <1>5, Same

\* A plugin's session is opened by one more command and closed by its patch.
LEMMA SessionOpened ==
    ASSUME TypeOK, NEW u \in User, NEW g \in Group, cli[u] = NoSession,
           NEW mod, Prepare(u, g, mod)
    PROVE  /\ Cardinality(Sessions(g))' = Cardinality(Sessions(g)) + 1
           /\ \A h \in Group : h # g => Sessions(h)' = Sessions(h)
  <1>1. cli' = [cli EXCEPT ![u] = [g |-> g, base |-> sg[g].obj.ann, mod |-> mod]]
    BY DEF Prepare
  <1>2. cli'[u].g = g /\ \A v \in User : v # u => cli'[v] = cli[v]
    BY <1>1 DEF TypeOK, ClientsTypeOK
  <1>3. cli[u].g = None /\ None \notin Group
    BY ClusterConstants DEF NoSession
  <1>4. Sessions(g)' = Sessions(g) \union {u} /\ u \notin Sessions(g)
    BY <1>2, <1>3 DEF Sessions
  <1>5. \A h \in Group : h # g => Sessions(h)' = Sessions(h)
    BY <1>2, <1>3 DEF Sessions
  <1>6. Cardinality(Sessions(g) \union {u}) = Cardinality(Sessions(g)) + 1
    BY <1>4, SessionsType, FS_AddElement
  <1> QED
    BY <1>4, <1>5, <1>6

LEMMA SessionClosed ==
    ASSUME TypeOK, NEW u \in User, NEW g \in Group, cli[u].g = g,
           cli' = [cli EXCEPT ![u] = NoSession]
    PROVE  /\ Cardinality(Sessions(g))' = Cardinality(Sessions(g)) - 1
           /\ \A h \in Group : h # g => Sessions(h)' = Sessions(h)
  <1>1. cli'[u] = NoSession /\ \A v \in User : v # u => cli'[v] = cli[v]
    BY DEF TypeOK, ClientsTypeOK
  <1>2. cli'[u].g = None /\ None \notin Group
    BY <1>1, ClusterConstants DEF NoSession
  <1>3. Sessions(g)' = Sessions(g) \ {u} /\ u \in Sessions(g)
    BY <1>1, <1>2 DEF Sessions
  <1>4. \A h \in Group : h # g => Sessions(h)' = Sessions(h)
    BY <1>1, <1>2 DEF Sessions
  <1>5. Cardinality(Sessions(g) \ {u}) = Cardinality(Sessions(g)) - 1
    BY <1>3, SessionsType, FS_RemoveElement
  <1> QED
    BY <1>3, <1>4, <1>5

LEMMA OnceClients ==
    ASSUME Calm, Appliers = {}, TypeOK, TypeOK', CalmInv, OnceInv, ClientsNext, UNCHANGED job
    PROVE  OnceInv'
  <1> SUFFICES ASSUME NEW h \in Group
               PROVE  Accounted(h)' + Cardinality(Sessions(h))' <= commands'[h]
    BY DEF OnceInv
  <1>0. /\ Accounted(h) \in Nat /\ Cardinality(Sessions(h)) \in Nat /\ commands[h] \in Nat
        /\ Accounted(h) + Cardinality(Sessions(h)) <= commands[h]
        /\ Accounted(h)' \in Nat
    <2>1. commands[h] \in Nat
      BY ClientsConstants DEF TypeOK, ClientsTypeOK
    <2>2. Accounted(h)' \in Nat
      BY AccountedTypeNext
    <2> QED
      BY <2>1, <2>2, AccountedType, SessionsType DEF OnceInv
  <1>1. ASSUME NEW u \in User, Send(u)
        PROVE  Accounted(h)' + Cardinality(Sessions(h))' <= commands'[h]
    <2> DEFINE g == cli[u].g
               ann == MergeAnnotations(sg[g].obj.ann, cli[u].base, cli[u].mod)
    <2>1. g \in Group /\ ann \in Annotations
      <3>1. cli[u] \in Session
        BY <1>1 DEF Send, TypeOK, ClientsTypeOK
      <3>2. g \in Group /\ cli[u].base \in Annotations /\ cli[u].mod \in Annotations
        BY <3>1 DEF Session
      <3> QED
        BY <3>2, FeedParts, ObjectParts, MergeTypes DEF TypeOK
    <2>2. Submit(g, u, ann)
      BY <1>1, <2>1 DEF Send, CalmInv, GroupsLive
    <2>3. commands' = commands /\ cli' = [cli EXCEPT ![u] = NoSession]
      BY <1>1 DEF Send
    <2> HIDE DEF ann
    <2>4. CASE h = g
      <3>1. Cardinality(Sessions(h))' = Cardinality(Sessions(h)) - 1
        BY <2>1, <2>3, <2>4, SessionClosed
      <3>2. Accounted(h)' <= Accounted(h) + 1
        BY <2>1, <2>2, <2>4, SubmitAccounts
      <3> QED
        BY <1>0, <2>3, <3>1, <3>2
    <2>5. CASE h # g
      <3>1. Sessions(h)' = Sessions(h)
        BY <2>1, <2>3, <2>5, SessionClosed
      <3>2. Accounted(h)' <= Accounted(h)
        BY <2>1, <2>2, <2>5, SubmitAccounts
      <3> QED
        BY <1>0, <2>3, <3>1, <3>2
    <2> QED
      BY <2>4, <2>5
  <1>2. ASSUME NEW u \in User, NEW g \in Group, NEW cmd \in {"down", "up"}, Annotate(u, g, cmd)
        PROVE  Accounted(h)' + Cardinality(Sessions(h))' <= commands'[h]
    <2> DEFINE ann == [sg[g].obj.ann EXCEPT !.cmd = cmd]
    <2>1. ann \in Annotations
      BY FeedParts, ObjectParts DEF Annotations, Command, TypeOK
    <2>2. Submit(g, u, ann) /\ cli' = cli /\ commands' = [commands EXCEPT ![g] = @ + 1]
      BY <1>2 DEF Annotate
    <2> HIDE DEF ann
    <2>3. Sessions(h)' = Sessions(h)
      BY <2>2 DEF Sessions
    <2>4. CASE h = g
      <3>1. commands'[h] = commands[h] + 1
        BY <2>2, <2>4 DEF TypeOK, ClientsTypeOK
      <3>2. Accounted(h)' <= Accounted(h) + 1
        BY <2>1, <2>2, <2>4, SubmitAccounts
      <3> QED
        BY <1>0, <2>3, <3>1, <3>2
    <2>5. CASE h # g
      <3>1. commands'[h] = commands[h]
        BY <2>2, <2>5 DEF TypeOK, ClientsTypeOK
      <3>2. Accounted(h)' <= Accounted(h)
        BY <2>1, <2>2, <2>5, SubmitAccounts
      <3> QED
        BY <1>0, <2>3, <3>1, <3>2
    <2> QED
      BY <2>4, <2>5
  <1>3. ASSUME NEW u \in User, NEW g \in Group, MayCommand(u, g), NEW mod, Prepare(u, g, mod)
        PROVE  Accounted(h)' + Cardinality(Sessions(h))' <= commands'[h]
    <2>1. Accounted(h)' = Accounted(h)
      <3>1. Undisturbed(h)
        BY <1>3 DEF Prepare, clusterVars, Undisturbed, History, CommandOf, State, OnJob
      <3> QED
        BY <3>1, <1>3
           DEF Undisturbed, Accounted, Waiting, InFlight, Goal
    <2>2. cli[u] = NoSession /\ commands' = [commands EXCEPT ![g] = @ + 1]
      BY <1>3 DEF MayCommand, Prepare
    <2>3. CASE h = g
      <3>1. commands'[h] = commands[h] + 1
        BY <2>2, <2>3 DEF TypeOK, ClientsTypeOK
      <3>2. Cardinality(Sessions(h))' = Cardinality(Sessions(h)) + 1
        BY <1>3, <2>2, <2>3, SessionOpened
      <3> QED
        BY <1>0, <2>1, <3>1, <3>2
    <2>4. CASE h # g
      <3>1. commands'[h] = commands[h]
        BY <2>2, <2>4 DEF TypeOK, ClientsTypeOK
      <3>2. Sessions(h)' = Sessions(h)
        BY <1>3, <2>2, <2>4, SessionOpened
      <3> QED
        BY <1>0, <2>1, <3>1, <3>2
    <2> QED
      BY <2>3, <2>4
  <1>4. ASSUME NEW u \in User, NEW g \in Group,
               Up(u, g) \/ \E reason \in Reason, partial \in BOOLEAN : Down(u, g, reason, partial)
        PROVE  MayCommand(u, g) /\ \E mod : Prepare(u, g, mod)
    BY <1>4 DEF Up, Down
  <1>5. ASSUME NEW u \in User, NEW g \in Group, Export(u, g) \/ Apply(u, g)
        PROVE  FALSE
    BY <1>5 DEF Export, Apply
  <1> QED
    BY <1>1, <1>2, <1>3, <1>4, <1>5 DEF ClientsNext

LEMMA OnceStep ==
    ASSUME Calm, Appliers = {}, TypeOK, TypeOK', CalmInv, OnceInv, [Next]_vars
    PROVE  OnceInv'
  <1>1. CASE ClientsNext /\ UNCHANGED operatorVars
    BY <1>1, OnceClients DEF operatorVars
  <1>2. ASSUME \/ ClusterNext /\ UNCHANGED <<operatorVars, clientsVars>>
               \/ OperatorNext /\ UNCHANGED clientsVars
               \/ UNCHANGED vars
        PROVE  OnceInv'
    <2> SUFFICES ASSUME NEW g \in Group
                 PROVE  Accounted(g)' + Cardinality(Sessions(g))' <= commands'[g]
      BY DEF OnceInv
    <2>1. UNCHANGED clientsVars
      BY <1>2 DEF vars
    <2>2. Sessions(g)' = Sessions(g) /\ commands' = commands
      BY <2>1 DEF clientsVars, Sessions
    <2>3. Accounted(g)' <= Accounted(g)
      <3>1. CASE OperatorNext
        BY <3>1, WorkerAccounts
      <3>2. ASSUME UNCHANGED <<sg, job>>
            PROVE  Accounted(g)' <= Accounted(g)
        <4>1. Undisturbed(g)
          BY <3>2 DEF Undisturbed, History, CommandOf, State, OnJob
        <4> QED
          BY <4>1, Same
      <3>3. CASE ClusterNext /\ UNCHANGED <<operatorVars, clientsVars>>
        BY <3>2, <3>3, SurroundingsAct DEF operatorVars
      <3>4. CASE UNCHANGED vars
        BY <3>2, <3>4 DEF vars, clusterVars, operatorVars
      <3> QED
        BY <1>2, <3>1, <3>3, <3>4
    <2>4. /\ Accounted(g) \in Nat /\ Cardinality(Sessions(g)) \in Nat /\ commands[g] \in Nat
          /\ Accounted(g)' \in Nat
          /\ Accounted(g) + Cardinality(Sessions(g)) <= commands[g]
      <3>1. commands[g] \in Nat
        BY ClientsConstants DEF TypeOK, ClientsTypeOK
      <3>2. Accounted(g)' \in Nat
        BY AccountedTypeNext
      <3> QED
        BY <3>1, <3>2, AccountedType, SessionsType DEF OnceInv
    <2> QED
      BY <2>2, <2>3, <2>4
  <1> QED
    BY <1>1, <1>2 DEF Next

LEMMA OnceInit == Init => OnceInv
  <1> SUFFICES ASSUME Init, NEW g \in Group
               PROVE  Accounted(g) + Cardinality(Sessions(g)) <= commands[g]
    BY DEF OnceInv
  <1>1. sg[g] = Synced(Fresh) /\ job = Idle /\ commands[g] = 0
    BY DEF Init, ClusterInit, OperatorInit, ClientsInit
  <1>2. History(g) = <<>> /\ CommandOf(g) = "none"
    <2>1. sg[g].obj = Fresh
      BY <1>1, SyncedParts
    <2>2. Fresh.status.history = <<>> /\ Fresh.ann.cmd = "none"
      BY DEF Fresh, NoStatus, NoAnnotations
    <2> QED
      BY <2>1, <2>2, Zenon DEF History, CommandOf
  <1>3. Len(History(g)) = 0 /\ InFlight(g) = 0 /\ Waiting(g) = 0
    BY <1>1, <1>2 DEF InFlight, OnJob, Waiting
  <1>4. Sessions(g) = {}
    BY ClusterConstants DEF Init, ClientsInit, Sessions, NoSession
  <1>5. Cardinality(Sessions(g)) = 0
    BY <1>4, FS_EmptySet
  <1> QED
    BY <1>1, <1>3, <1>5 DEF Accounted

\* A command is executed at most once, however often it is cut off and retried and
\* whatever the others do meanwhile, provided that reads are fresh, that no group is
\* deleted, and that nobody applies a file with a command in it again and again.
THEOREM ExecutedAtMostOnce ==
    ASSUME Calm, Appliers = {}
    PROVE  Spec => []ExecutedOnce
  <1>1. TypeOK /\ TypeOK' /\ CalmInv /\ OnceInv /\ [Next]_vars => OnceInv'
    BY OnceStep
  <1>2. TypeOK /\ OnceInv => ExecutedOnce
    <2> SUFFICES ASSUME TypeOK, OnceInv, NEW g \in Group
                 PROVE  Len(History(g)) <= commands[g]
      BY DEF ExecutedOnce
    <2>1. commands[g] \in Nat
      BY ClientsConstants DEF TypeOK, ClientsTypeOK
    <2> QED
      BY <2>1, AccountedType, SessionsType DEF OnceInv
  <1> QED
    BY <1>1, <1>2, OnceInit, TypeCorrect, CopyIsCurrent, PTL DEF Spec

----------------------------------------------------------------------------
(***************************************************************************)
(* The audit trail.  AuditTrail speaks of quiet groups; in between the     *)
(* state is one operation ahead of the history, while the worker is about  *)
(* to append the entry.  A failure in that moment loses the entry, which   *)
(* is why the invariant is about behaviours without one.                   *)
(***************************************************************************)

Alternates(h) == \A i \in 1 .. Len(h) - 1 : h[i].op # h[i + 1].op

\* The worker has written the new state of g and not yet the entry for it.
Ahead(g) == OnJob(g) /\ job.pc = "history"

\* The worker has written the operator of the command and not yet the state.
Scaling(g) == OnJob(g) /\ job.pc = "scale"

StatusOperator(g) == sg[g].obj.status.operator

Newest(g) ==
    IF Ahead(g) THEN History(g) # <<>> => History(g)[1].op # State(g)
    ELSE IF State(g) = "" THEN History(g) = <<>>
    ELSE History(g) # <<>> /\ History(g)[1].op = State(g)

Author(g) ==
    IF Ahead(g) \/ Scaling(g) THEN StatusOperator(g) = job.operator
    ELSE State(g) # "" => History(g)[1].operator = StatusOperator(g)

AuditOf(g) ==
    /\ Alternates(History(g))
    /\ Newest(g)
    /\ Author(g)
    /\ State(g) # "down" /\ ~ Scaling(g) => Snapshot(g) = <<>>

AuditInv == faults = 0 => \A g \in Group : AuditOf(g)

\* An entry at the head keeps the alternation, also when the oldest entry falls
\* off the end.
LEMMA ExtendedAlternates ==
    ASSUME job \in Job, NEW h \in HistoryList, Alternates(h),
           h # <<>> => h[1].op # job.cmd
    PROVE  /\ Alternates(Extended(h)) /\ Extended(h) # <<>>
           /\ Extended(h)[1] = JobEntry
  <1>1. JobEntry \in HistoryEntry /\ h \in Seq(HistoryEntry) /\ JobEntry.op = job.cmd
    BY JobParts DEF JobEntry, HistoryEntry, HistoryList
  <1> DEFINE e == <<JobEntry>> \o h
  <1>2. /\ e \in Seq(HistoryEntry) /\ Len(e) = Len(h) + 1 /\ Len(h) \in Nat
        /\ e[1] = JobEntry /\ \A i \in 1 .. Len(h) : e[i + 1] = h[i]
    BY <1>1, ConcatProperties, LenProperties
  <1> HIDE DEF e
  <1>3. \A i \in 1 .. Len(e) - 1 : e[i].op # e[i + 1].op
    <2> SUFFICES ASSUME NEW i \in 1 .. Len(e) - 1 PROVE e[i].op # e[i + 1].op
      OBVIOUS
    <2>1. CASE i = 1
      <3>1. e[1] = JobEntry /\ e[2] = h[1] /\ h # <<>>
        BY <1>2, <2>1
      <3> QED
        BY <1>1, <2>1, <3>1
    <2>2. CASE i # 1
      <3>1. i - 1 \in 1 .. Len(h) - 1 /\ i - 1 \in 1 .. Len(h) /\ i \in 1 .. Len(h)
        BY <1>2, <2>2
      <3>2. e[(i - 1) + 1] = h[i - 1] /\ e[i + 1] = h[i] /\ (i - 1) + 1 = i
        BY <1>2, <3>1
      <3>3. h[i - 1].op # h[(i - 1) + 1].op
        BY <3>1 DEF Alternates
      <3> QED
        BY <3>2, <3>3
    <2> QED
      BY <2>1, <2>2
  <1>4. Extended(h) = Capped(e)
    BY DEF Extended, e
  <1>5. CASE Len(e) > MaxHistoryEntries
    <2> DEFINE c == SubSeq(e, 1, MaxHistoryEntries)
    <2>1. /\ Len(c) = MaxHistoryEntries /\ \A i \in 1 .. MaxHistoryEntries : c[i] = e[i]
          /\ MaxHistoryEntries \in Nat \ {0}
      BY <1>2, <1>5, TypeConstants, SubSeqProperties
    <2>2. Extended(h) = c
      BY <1>4, <1>5 DEF Capped
    <2> HIDE DEF c
    <2>3. c # <<>> /\ c[1] = JobEntry
      BY <1>2, <2>1
    <2>4. Alternates(c)
      <3> SUFFICES ASSUME NEW i \in 1 .. Len(c) - 1 PROVE c[i].op # c[i + 1].op
        BY DEF Alternates
      <3>1. c[i] = e[i] /\ c[i + 1] = e[i + 1] /\ i \in 1 .. Len(e) - 1
        BY <1>2, <1>5, <2>1
      <3> QED
        BY <1>3, <3>1
    <2> QED
      BY <2>2, <2>3, <2>4
  <1>6. CASE ~ (Len(e) > MaxHistoryEntries)
    <2>1. Extended(h) = e
      BY <1>4, <1>6 DEF Capped
    <2> QED
      BY <1>2, <1>3, <2>1 DEF Alternates
  <1> QED
    BY <1>5, <1>6

\* What concerns neither the status of g nor the worker on g changes nothing.
LEMMA AuditKept ==
    ASSUME NEW g \in Group, AuditOf(g), sg'[g].obj.status = sg[g].obj.status,
           \/ ~ OnJob(g) /\ ~ OnJob(g)'
           \/ OnJob(g) /\ OnJob(g)' /\ job'.pc = job.pc /\ job'.operator = job.operator
    PROVE  AuditOf(g)'
  <1>1. /\ History(g)' = History(g) /\ State(g)' = State(g) /\ Snapshot(g)' = Snapshot(g)
        /\ StatusOperator(g)' = StatusOperator(g)
    BY DEF History, State, Snapshot, StatusOperator
  <1>2. CASE ~ OnJob(g) /\ ~ OnJob(g)'
    BY <1>1, <1>2 DEF AuditOf, Newest, Author, Ahead, Scaling
  <1>3. CASE OnJob(g) /\ OnJob(g)' /\ job'.pc = job.pc /\ job'.operator = job.operator
    BY <1>1, <1>3 DEF AuditOf, Newest, Author, Ahead, Scaling
  <1> QED
    BY <1>2, <1>3

\* Where every workload is kshutdown's alone, none is ever missing.
LEMMA NothingMissing ==
    ASSUME Calm, Disturbed = {}, TypeOK, NeverInvents, CalmInv, job # Idle
    PROVE  ~ WorkloadNotFound
  <1> SUFFICES ASSUME EntryMissing PROVE FALSE
    BY DEF WorkloadNotFound
  <1>1. job \in Job /\ job.i <= Len(Entries)
    BY BusyWorker DEF EntryMissing, TypeOK
  <1>2. Entries[job.i].w \in Steady /\ Entries[job.i].w \in Workload
    BY <1>1, EntryType DEF Steady
  <1>3. wl[Entries[job.i].w].obj # Absent /\ wl[Entries[job.i].w].seen # Absent
    BY <1>2, FreshParts, ClusterConstants, LevelTypes
       DEF CalmInv, NeverInvents, Absent, Replicas
  <1> QED
    BY <1>3 DEF EntryMissing

LEMMA AuditWorker ==
    ASSUME Calm, Disturbed = {}, TypeOK, NeverInvents, CalmInv, OperatorNext, faults' = 0,
           faults = 0, NEW g \in Group, AuditOf(g)
    PROVE  AuditOf(g)'
  <1>0. /\ job # Idle => job \in Job /\ job.g \in Group
        /\ History(g) \in HistoryList
    BY BusyWorker, JobParts, AccountedType DEF TypeOK
  <1>1. WorkerDoes
    BY WorkerActs
  <1>2. CASE UNCHANGED <<sg, wl, job, faults>>
    BY <1>2, AuditKept DEF OnJob
  <1>3. ASSUME NEW h \in Group, Starts(h)
        PROVE  AuditOf(g)'
    <2>1. CASE g # h
      <3>1. sg'[g].obj.status = sg[g].obj.status /\ ~ OnJob(g) /\ ~ OnJob(g)'
        BY <1>3, <2>1 DEF Starts, OnJob
      <3> QED
        BY <3>1, AuditKept
    <2>2. CASE g = h
      <3>1. /\ History(g)' = History(g) /\ State(g)' = State(g) /\ Snapshot(g)' = Snapshot(g)
            /\ StatusOperator(g)' = StatusOperator(g) /\ ~ OnJob(g)
        BY <1>3 DEF Starts, OnJob, History, State, Snapshot, StatusOperator
      <3>2. job'.pc # "history" /\ (job'.pc = "scale" => State(g) # "down" /\ Snapshot(g) # <<>>)
        BY <1>3, <2>2 DEF Starts
      <3>3. job'.pc # "scale"
        BY <3>1, <3>2 DEF AuditOf, Scaling
      <3> QED
        BY <3>1, <3>2, <3>3 DEF AuditOf, Newest, Author, Ahead, Scaling
    <2> QED
      BY <2>1, <2>2
  <1>4. CASE Proceeds
    <2>1. job # Idle
      BY <1>4, IdleWorker DEF Proceeds
    <2> QED
      BY <1>4, <2>1, AuditKept DEF Proceeds, SameJob, OnJob
  <1>5. ASSUME NEW pc, NEW st \in Status, job # Idle, Writes(pc, st), g # job.g
        PROVE  AuditOf(g)'
    <2>1. sg'[g].obj.status = sg[g].obj.status /\ ~ OnJob(g) /\ ~ OnJob(g)'
      BY <1>5 DEF Writes, Rewritten, SameJob, OnJob
    <2> QED
      BY <2>1, AuditKept
  <1>6. ASSUME NEW pc, NEW st \in Status, job # Idle, Writes(pc, st), g = job.g
        PROVE  /\ OnJob(g) /\ OnJob(g)' /\ job'.pc = pc
               /\ job'.cmd = job.cmd /\ job'.operator = job.operator
               /\ History(g)' = st.history /\ State(g)' = st.state
               /\ Snapshot(g)' = st.snapshot /\ StatusOperator(g)' = st.operator
               /\ History(g) = Held.history /\ State(g) = Held.state
               /\ Snapshot(g) = Held.snapshot /\ StatusOperator(g) = Held.operator
    BY <1>6 DEF Writes, Rewritten, SameJob, OnJob, History, State, Snapshot, StatusOperator, Held
  <1>7. CASE Collected
    <2>1. PICK st \in Status : /\ job.pc = "collect" /\ Writes("scale", st)
                               /\ st.state = Held.state /\ st.history = Held.history
                               /\ st.operator = job.operator
      BY <1>7 DEF Collected
    <2>2. job # Idle
      BY <2>1, IdleWorker
    <2>3. CASE g = job.g
      <3>1. /\ OnJob(g) /\ OnJob(g)' /\ job.pc = "collect" /\ job'.pc = "scale"
            /\ job'.operator = job.operator
            /\ History(g)' = History(g) /\ State(g)' = State(g)
            /\ StatusOperator(g)' = job.operator
        BY <1>6, <2>1, <2>2, <2>3
      <3> QED
        BY <3>1 DEF AuditOf, Newest, Author, Ahead, Scaling
    <2> QED
      BY <1>5, <2>1, <2>2, <2>3
  <1>8. CASE MarkedDown \/ MarkedUp
    <2>1. PICK st \in Status :
              /\ Writes("history", st) /\ st.history = Held.history
              /\ \/ job.pc = "scale" /\ st.state = "down" /\ st.operator = Held.operator
                 \/ job.pc = "restore" /\ st.state = "up" /\ st.operator = job.operator
                    /\ st.snapshot = <<>>
      BY <1>8 DEF MarkedDown, MarkedUp
    <2>2. job # Idle
      BY <2>1, IdleWorker
    <2>3. CASE g = job.g
      <3>1. /\ OnJob(g) /\ OnJob(g)' /\ job.pc # "history" /\ job'.pc = "history"
            /\ job'.operator = job.operator
            /\ History(g)' = History(g) /\ State(g)' = st.state
            /\ st.state # "down" => Snapshot(g)' = <<>>
        BY <1>6, <2>1, <2>2, <2>3
      <3>2. st.state \in {"up", "down"} /\ State(g) # st.state
        BY <2>1, <2>2, <2>3 DEF CalmInv, CopyInv
      <3>3. StatusOperator(g)' = job.operator
        BY <1>6, <2>1, <2>2, <2>3 DEF AuditOf, Author, Scaling
      <3>4. Newest(g)'
        BY <3>1, <3>2 DEF AuditOf, Newest, Ahead
      <3> QED
        BY <3>1, <3>3, <3>4 DEF AuditOf, Author, Ahead
    <2> QED
      BY <1>5, <2>1, <2>2, <2>3
  <1>9. CASE Appended
    <2>1. PICK st \in Status : /\ job.pc = "history" /\ Writes("consume", st)
                               /\ st.state = Held.state /\ st.history = Extended(Held.history)
                               /\ st.operator = Held.operator /\ st.snapshot = Held.snapshot
      BY <1>9 DEF Appended
    <2>2. job # Idle
      BY <2>1, IdleWorker
    <2>3. CASE g = job.g
      <3>1. /\ OnJob(g) /\ OnJob(g)' /\ job.pc = "history" /\ job'.pc = "consume"
            /\ History(g)' = Extended(History(g)) /\ State(g)' = State(g)
            /\ StatusOperator(g)' = StatusOperator(g) /\ Snapshot(g)' = Snapshot(g)
        BY <1>6, <2>1, <2>2, <2>3
      <3>2. State(g) = job.cmd
        BY <2>1, <2>2, <2>3 DEF CalmInv, CopyInv
      <3>3. /\ Alternates(Extended(History(g))) /\ Extended(History(g)) # <<>>
            /\ Extended(History(g))[1] = JobEntry
        BY <1>0, <2>2, <3>1, <3>2, ExtendedAlternates DEF AuditOf, Newest, Ahead
      <3>4. JobEntry.op = State(g) /\ JobEntry.operator = StatusOperator(g)
        BY <3>1, <3>2 DEF AuditOf, Author, Ahead, JobEntry
      <3>5. Newest(g)' /\ Author(g)' /\ Alternates(History(g))'
        <4>1. ~ Ahead(g)' /\ ~ Scaling(g)'
          BY <3>1 DEF Ahead, Scaling
        <4>2. job.cmd # ""
          BY <1>0, <2>2, JobParts
        <4> QED
          BY <3>1, <3>2, <3>3, <3>4, <4>1, <4>2 DEF Newest, Author
      <3> QED
        BY <3>1, <3>5 DEF AuditOf, Scaling
    <2> QED
      BY <1>5, <2>1, <2>2, <2>3
  <1>10. CASE Finishes
    <2>1. job # Idle /\ ~ OnJob(g)' /\ sg'[g].obj.status = sg[g].obj.status
      BY <1>10, IdleWorker DEF Finishes, OnJob, Rewritten, Held
    <2>2. CASE ~ OnJob(g)
      BY <2>1, <2>2, AuditKept
    <2>3. CASE OnJob(g)
      <3>1. /\ History(g)' = History(g) /\ State(g)' = State(g) /\ Snapshot(g)' = Snapshot(g)
            /\ StatusOperator(g)' = StatusOperator(g) /\ job.pc = "consume"
        BY <1>10, <2>1 DEF Finishes, History, State, Snapshot, StatusOperator
      <3> QED
        BY <2>1, <3>1 DEF AuditOf, Newest, Author, Ahead, Scaling
    <2> QED
      BY <2>2, <2>3
  <1>11. CASE CutOff
    <2>1. CASE job # Idle
      BY <1>11, <2>1, NothingMissing DEF CutOff
    <2>2. CASE job = Idle
      BY <1>11, <2>2, AuditKept DEF CutOff, OnJob
    <2> QED
      BY <2>1, <2>2
  <1> QED
    BY <1>1, <1>2, <1>3, <1>4, <1>7, <1>8, <1>9, <1>10, <1>11 DEF WorkerDoes

LEMMA AuditStep ==
    ASSUME Calm, Disturbed = {}, TypeOK, NeverInvents, CalmInv, AuditInv, [Next]_vars
    PROVE  AuditInv'
  <1> SUFFICES ASSUME faults' = 0, NEW g \in Group
               PROVE  AuditOf(g)'
    BY DEF AuditInv
  <1>1. ASSUME faults = 0, UNCHANGED job, sg'[g].obj.status = sg[g].obj.status
        PROVE  AuditOf(g)'
    BY <1>1, AuditKept DEF AuditInv, OnJob
  <1>2. CASE ClusterNext /\ UNCHANGED <<operatorVars, clientsVars>>
    BY <1>1, <1>2, SurroundingsAct DEF operatorVars
  <1>3. CASE OperatorNext /\ UNCHANGED clientsVars
    <2>1. faults = 0
      <3>1. WorkerDoes
        BY <1>3, WorkerActs
      <3> QED
        BY <3>1
           DEF WorkerDoes, Starts, Proceeds, Collected, MarkedDown, MarkedUp, Appended, Writes,
               Finishes, CutOff, WorkloadNotFound, TypeOK, OperatorTypeOK
    <2> QED
      BY <1>3, <2>1, AuditWorker DEF AuditInv
  <1>4. CASE ClientsNext /\ UNCHANGED operatorVars
    <2>1. CASE UNCHANGED sg
      BY <1>1, <1>4, <2>1 DEF operatorVars
    <2>2. ASSUME NEW h \in Group, NEW new \in Annotations, Rewritten(h, new, sg[h].obj.status)
          PROVE  sg'[g].obj.status = sg[g].obj.status
      BY <2>2 DEF Rewritten
    <2> QED
      BY <1>1, <1>4, <2>1, <2>2, ClientsAct DEF operatorVars
  <1>5. CASE UNCHANGED vars
    BY <1>1, <1>5 DEF vars, clusterVars, operatorVars
  <1> QED
    BY <1>2, <1>3, <1>4, <1>5 DEF Next

LEMMA AuditInit == Init => AuditInv
  <1> SUFFICES ASSUME Init, NEW g \in Group PROVE AuditOf(g)
    BY DEF AuditInv
  <1>1. sg[g] = Synced(Fresh) /\ job = Idle
    BY DEF Init, ClusterInit, OperatorInit
  <1>2. Fresh.status.history = <<>> /\ Fresh.status.state = "" /\ Fresh.status.snapshot = <<>>
    BY DEF Fresh, NoStatus
  <1>3. History(g) = <<>> /\ State(g) = "" /\ Snapshot(g) = <<>> /\ ~ OnJob(g)
    <2>1. sg[g].obj = Fresh
      BY <1>1, SyncedParts
    <2> QED
      BY <1>1, <1>2, <2>1, Zenon DEF History, State, Snapshot, OnJob
  <1>4. Alternates(History(g))
    <2>1. 1 .. Len(History(g)) - 1 = {}
      <3>1. Len(History(g)) = 0
        BY <1>3, EmptySeq, Zenon
      <3> QED
        BY <3>1
    <2> QED
      BY <2>1 DEF Alternates
  <1>5. ~ Ahead(g) /\ ~ Scaling(g)
    BY <1>3 DEF Ahead, Scaling
  <1> QED
    BY <1>3, <1>4, <1>5 DEF AuditOf, Newest, Author

\* As long as no call has failed and the process has not died, the newest entry of
\* a quiet group is the operation that brought it into its state, by the operator
\* the status names, and downs and ups alternate: for any commands of any users at
\* any moment, provided that reads are fresh, that no group is deleted, and that
\* nobody else changes workloads.
THEOREM HistoryIsRight ==
    ASSUME Calm, Disturbed = {}
    PROVE  Spec => []AuditUntilFailure
  <1>1. TypeOK /\ NeverInvents /\ CalmInv /\ AuditInv /\ [Next]_vars => AuditInv'
    BY AuditStep
  <1>2. AuditInv => AuditUntilFailure
    <2> SUFFICES ASSUME faults = 0, NEW g \in Group, AuditOf(g), Quiet(g), State(g) # ""
                 PROVE  /\ History(g) # <<>> /\ History(g)[1].op = State(g)
                        /\ History(g)[1].operator = sg[g].obj.status.operator
                        /\ \A i \in 1 .. Len(History(g)) - 1 :
                              History(g)[i].op # History(g)[i + 1].op
      BY DEF AuditInv, AuditUntilFailure, AuditTrail
    <2>1. ~ OnJob(g)
      BY DEF Quiet, OnJob
    <2> QED
      BY <2>1 DEF AuditOf, Newest, Author, Ahead, Scaling, Alternates, StatusOperator
  <1> QED
    BY <1>1, <1>2, AuditInit, TypeCorrect, LevelsNeverInvented, CopyIsCurrent, PTL DEF Spec
=============================================================================
