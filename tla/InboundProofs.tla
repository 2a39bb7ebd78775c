--------------------------- MODULE InboundProofs ----------------------------
(***************************************************************************)
(* Theorems about Inbound for any messages, number of streams, window,     *)
(* skew and capacity.  The steps of Inbound are steps of Inbox, so that    *)
(* what InboxProofs says of the inbox holds in the composition.  The rest  *)
(* is about the replay guard: GuardInv says when it may have forgotten a   *)
(* message, which neither its map nor the history tells alone.             *)
(***************************************************************************)
EXTENDS Inbound, InboxProofs

LEMMA ItemFacts ==
  ASSUME NEW x \in Items
  PROVE  x.id \in Ids /\ x.created \in Nat /\ x # NoItem /\ Exp[x] \in Nat
  BY ItemsAreMessages, NoItemIsNotAnItem, ExpIsATime

-----------------------------------------------------------------------------
(* Types.                                                                  *)

\* The conjuncts of InboundTypeOK about tasks and guard.
TaskTypeOK ==
  /\ at \in [Streams -> {"free", "arrived", "resolving", "admitted"}]
  /\ item \in [Streams -> Items \cup {NoItem}]
  /\ since \in [Streams -> 0 .. clock]
  /\ \A s \in Streams : item[s] = NoItem <=> at[s] = "free"

GuardTypeOK ==
  /\ seen \in [Ids -> (0 .. clock) \cup {Never}]
  /\ entered \in
       [Ids -> [when : 0 .. clock, what : Items] \cup {Never}]
  /\ times \in [Ids -> Nat]

LEMMA SplitType == InboundTypeOK <=> TypeOK /\ TaskTypeOK /\ GuardTypeOK
  BY DEF InboundTypeOK, TaskTypeOK, GuardTypeOK

\* A task that is alive holds a message.
LEMMA HeldItem ==
  ASSUME TaskTypeOK, NEW s \in Streams, at[s] # "free"
  PROVE  item[s] \in Items
  BY DEF TaskTypeOK

\* The inbox sees calls and seconds, and nothing else.
LEMMA InboundIsInbox ==
  ASSUME InboundTypeOK, [InboundNext]_vars
  PROVE  [InboxNext]_<<clock, inboxVars>>
<1>1. clock \in Nat
  BY DEF InboundTypeOK, TypeOK
<1>2. CASE UNCHANGED <<clock, inboxVars>>
  BY <1>2
<1>3. CASE SecondPasses
  BY <1>3 DEF SecondPasses, InboxNext
<1>4. CASE Read
  <2>1. clock \in 0 .. clock
    BY <1>1
  <2> QED BY <1>4, <2>1 DEF Read, InboxNext, Call
<1>5. ASSUME NEW s \in Streams, Deliver(s) PROVE InboxNext
  <2>1. PICK now \in since[s] .. clock : Push(now, item[s])
    BY <1>5 DEF Deliver
  <2>2. item[s] \in Items
    BY <1>5, HeldItem, SplitType DEF Deliver
  <2>3. now \in 0 .. clock
    BY <1>1 DEF InboundTypeOK
  <2> QED BY <1>5, <2>1, <2>2, <2>3 DEF Deliver, InboxNext, Call
<1>6. ASSUME NEW s \in Streams,
             \/ GiveUp(s) \/ Decode(s) \/ Mismatch(s)
             \/ RefuseStale(s) \/ RefuseReplay(s) \/ Admit(s)
      PROVE  UNCHANGED <<clock, inboxVars>>
  BY <1>6 DEF GiveUp, Decode, Mismatch, RefuseStale, RefuseReplay, Admit
<1>7. ASSUME NEW s \in Streams, NEW x \in Items, Arrive(s, x) \/ Loopback(s, x)
      PROVE  UNCHANGED <<clock, inboxVars>>
  BY <1>7 DEF Arrive, Loopback
<1> QED
  BY <1>2, <1>3, <1>4, <1>5, <1>6, <1>7, LocalAreItems
  DEF InboundNext, TaskStep, vars

\* A task moves to a place where it holds what the place requires.
LEMMA MovesType ==
  ASSUME TaskTypeOK, NEW s \in Streams, clock \in Nat, clock' = clock,
         NEW where \in {"free", "arrived", "resolving", "admitted"},
         NEW x \in Items \cup {NoItem}, x = NoItem <=> where = "free",
         Moves(s, where, x)
  PROVE  TaskTypeOK'
  BY DEF TaskTypeOK, Moves

LEMMA StepTaskType ==
  ASSUME InboundTypeOK, [InboundNext]_vars
  PROVE  TaskTypeOK'
<1>1. TaskTypeOK /\ clock \in Nat
  BY SplitType DEF TypeOK
<1>2. CASE UNCHANGED vars
  BY <1>1, <1>2 DEF vars, taskVars, TaskTypeOK
<1>3. CASE SecondPasses
  BY <1>1, <1>3 DEF SecondPasses, Tick, taskVars, TaskTypeOK
<1>4. CASE Read
  BY <1>1, <1>4 DEF Read, taskVars, TaskTypeOK
<1>5. ASSUME NEW s \in Streams, Ends(s), clock' = clock PROVE TaskTypeOK'
  BY <1>1, <1>5, MovesType DEF Ends
<1>6. ASSUME NEW s \in Streams, NEW x \in Items, Arrive(s, x)
      PROVE  TaskTypeOK'
  BY <1>1, <1>6, MovesType, ItemFacts DEF Arrive
<1>7. ASSUME NEW s \in Streams, NEW x \in Items, Loopback(s, x)
      PROVE  TaskTypeOK'
  BY <1>1, <1>7, MovesType, ItemFacts DEF Loopback
<1>8. ASSUME NEW s \in Streams, Admit(s) PROVE TaskTypeOK'
  <2>1. item[s] \in Items
    BY <1>1, <1>8, HeldItem DEF Admit, MayCheck
  <2> QED BY <1>1, <1>8, <2>1, MovesType, ItemFacts DEF Admit
<1>9. ASSUME NEW s \in Streams, Decode(s) PROVE TaskTypeOK'
  <2>1. item[s] \in Items
    BY <1>1, <1>9, HeldItem DEF Decode
  <2>2. clock' = clock
    BY <1>9 DEF Decode
  <2>3. CASE Moves(s, "resolving", item[s])
    BY <1>1, <2>1, <2>2, <2>3, MovesType, ItemFacts
  <2> QED BY <1>5, <1>9, <2>2, <2>3 DEF Decode
<1>10. ASSUME NEW s \in Streams,
              \/ GiveUp(s) \/ Mismatch(s) \/ Deliver(s)
              \/ RefuseStale(s) \/ RefuseReplay(s)
       PROVE  TaskTypeOK'
  <2>1. Ends(s) /\ clock' = clock
    BY <1>10 DEF GiveUp, Mismatch, Deliver, RefuseStale, RefuseReplay
  <2> QED BY <1>5, <2>1
<1> QED
  BY <1>2, <1>3, <1>4, <1>6, <1>7, <1>8, <1>9, <1>10, LocalAreItems
  DEF InboundNext, TaskStep

-----------------------------------------------------------------------------
(* What a step does to the guard.                                          *)

\* The guard's record after the admission of x at this second.
Record(x) == [when |-> clock, what |-> x]

Recorded(x) == entered' = [entered EXCEPT ![x.id] = Record(x)]

LEMMA RecordedProps ==
  ASSUME GuardTypeOK, clock \in Nat, NEW x \in Items, Recorded(x)
  PROVE  /\ entered' \in
              [Ids -> [when : 0 .. clock, what : Items] \cup {Never}]
         /\ entered'[x.id] = Record(x)
         /\ \A i \in Ids : i # x.id => entered'[i] = entered[i]
<1>1. x.id \in Ids /\ Record(x) \in [when : 0 .. clock, what : Items]
  BY ItemFacts DEF Record
<1> QED BY <1>1 DEF GuardTypeOK, Recorded

\* What the guard remembers after pruning is part of what it remembered.
LEMMA RememberedProps ==
  ASSUME GuardTypeOK, clock \in Nat, NEW i \in Ids
  PROVE  /\ Remembered \in [Ids -> (0 .. clock) \cup {Never}]
         /\ Remembered[i] \in {seen[i], Never}
         /\ seen[i] # Never /\ Remembered[i] = Never => clock - seen[i] > Window
<1>1. seen[i] \in (0 .. clock) \cup {Never}
  BY DEF GuardTypeOK
<1>2. Remembered[i] = IF Retains(seen[i]) THEN seen[i] ELSE Never
  BY DEF Remembered
<1>3. Remembered \in [Ids -> (0 .. clock) \cup {Never}]
  BY DEF GuardTypeOK, Remembered
<1>4. ASSUME seen[i] # Never, Remembered[i] = Never
      PROVE  clock - seen[i] > Window
  <2>1. ~Retains(seen[i])
    BY <1>2, <1>4
  <2>2. ~(clock - seen[i] <= Window)
    BY <1>4, <2>1 DEF Retains
  <2>3. clock \in Int /\ seen[i] \in Int
    BY <1>1, <1>4, NeverIsNotATime
  <2> QED BY <2>2, <2>3, WindowAndSkew
<1> QED BY <1>2, <1>3, <1>4

\* Each step leaves the guard alone, prunes it, or admits.
LEMMA GuardSteps ==
  ASSUME InboundTypeOK, [InboundNext]_vars
  PROVE  \/ UNCHANGED guardVars
         \/ /\ seen' = Remembered /\ UNCHANGED <<clock, entered, times>>
         \/ \E s \in Streams : Admit(s) /\ item[s] \in Items
<1>1. CASE UNCHANGED vars \/ SecondPasses \/ Read
  BY <1>1 DEF vars, SecondPasses, Read, guardVars
<1>2. ASSUME NEW s \in Streams, Admit(s) PROVE item[s] \in Items
  BY <1>2, HeldItem, SplitType DEF Admit, MayCheck
<1>3. ASSUME NEW s \in Streams,
             \/ GiveUp(s) \/ Mismatch(s) \/ Deliver(s)
             \/ RefuseStale(s) \/ Decode(s)
             \/ (\E x \in Items : Arrive(s, x)) \/ \E x \in Local : Loopback(s, x)
      PROVE  UNCHANGED guardVars
  BY <1>3 DEF GiveUp, Mismatch, Deliver, RefuseStale, Decode, Arrive, Loopback
<1>4. ASSUME NEW s \in Streams, RefuseReplay(s)
      PROVE  seen' = Remembered /\ UNCHANGED <<clock, entered, times>>
  BY <1>4 DEF RefuseReplay
<1> QED BY <1>1, <1>2, <1>3, <1>4 DEF InboundNext, TaskStep

LEMMA InboundInitType == InboundInit => InboundTypeOK
<1> SUFFICES ASSUME InboundInit PROVE InboundTypeOK
  OBVIOUS
<1>1. TypeOK
  BY InitType DEF InboundInit
<1>2. clock = 0
  BY DEF InboundInit, InboxInit
<1>3. TaskTypeOK
  BY <1>2 DEF InboundInit, TaskTypeOK
<1>4. GuardTypeOK
  BY <1>2 DEF InboundInit, GuardTypeOK
<1> QED BY <1>1, <1>3, <1>4, SplitType

LEMMA ClockGrows ==
  ASSUME InboundTypeOK, [InboundNext]_vars
  PROVE  clock \in Nat /\ clock' \in Nat /\ clock' >= clock
<1>1. TypeOK /\ clock \in Nat
  BY SplitType DEF TypeOK
<1>2. [InboxNext]_<<clock, inboxVars>>
  BY InboundIsInbox
<1> QED BY <1>1, <1>2 DEF InboxNext, Tick

LEMMA StepGuardType ==
  ASSUME InboundTypeOK, [InboundNext]_vars
  PROVE  GuardTypeOK'
<1>1. GuardTypeOK /\ clock \in Nat /\ clock' \in Nat /\ clock' >= clock
  BY SplitType, ClockGrows
<1>2. 0 .. clock \subseteq 0 .. clock'
  BY <1>1
<1>3. [when : 0 .. clock, what : Items] \subseteq [when : 0 .. clock', what : Items]
  BY <1>2
<1>4. CASE UNCHANGED guardVars
  <2>1. seen' \in [Ids -> (0 .. clock') \cup {Never}]
    BY <1>1, <1>2, <1>4 DEF GuardTypeOK, guardVars
  <2>2. entered' \in
          [Ids -> [when : 0 .. clock', what : Items] \cup {Never}]
    BY <1>1, <1>3, <1>4 DEF GuardTypeOK, guardVars
  <2> QED BY <1>1, <1>4, <2>1, <2>2 DEF GuardTypeOK, guardVars
<1>5. CASE seen' = Remembered /\ UNCHANGED <<clock, entered, times>>
  <2>1. Remembered \in [Ids -> (0 .. clock) \cup {Never}]
    BY <1>1 DEF GuardTypeOK, Remembered
  <2> QED BY <1>1, <1>5, <2>1 DEF GuardTypeOK
<1>6. ASSUME NEW s \in Streams, Admit(s), item[s] \in Items
      PROVE  GuardTypeOK'
  <2>1. clock' = clock /\ Recorded(item[s])
    BY <1>6 DEF Admit, Recorded, Record
  <2>2. Remembered \in [Ids -> (0 .. clock) \cup {Never}]
    BY <1>1 DEF GuardTypeOK, Remembered
  <2> PICK i \in Ids : i = item[s].id
    BY <1>6, ItemFacts
  <2>3. seen' \in [Ids -> (0 .. clock) \cup {Never}]
    <3>1. seen' = [Remembered EXCEPT ![i] = clock] /\ clock \in 0 .. clock
      BY <1>1, <1>6 DEF Admit
    <3> QED BY <2>2, <3>1
  <2>4. times' \in [Ids -> Nat]
    <3>1. times' = [times EXCEPT ![i] = times[i] + 1]
      BY <1>6 DEF Admit
    <3> QED BY <1>1, <3>1 DEF GuardTypeOK
  <2>5. entered' \in
          [Ids -> [when : 0 .. clock, what : Items] \cup {Never}]
    BY <1>1, <1>6, <2>1, RecordedProps
  <2> QED BY <2>1, <2>3, <2>4, <2>5 DEF GuardTypeOK
<1> QED BY <1>4, <1>5, <1>6, GuardSteps

\* Types of tasks, guard and inbox (accept, ReplayGuard, TtlQueue).
THEOREM InboundTypeCorrect == InboundSpec => []InboundTypeOK
<1>1. InboundTypeOK /\ [InboundNext]_vars => InboundTypeOK'
  <2> SUFFICES ASSUME InboundTypeOK, [InboundNext]_vars PROVE InboundTypeOK'
    OBVIOUS
  <2>1. TypeOK'
    BY InboundIsInbox, NextType, SplitType
  <2>2. TaskTypeOK' /\ GuardTypeOK'
    BY StepTaskType, StepGuardType
  <2> QED BY <2>1, <2>2 DEF InboundTypeOK, TaskTypeOK, GuardTypeOK
<1> QED BY <1>1, InboundInitType, PTL DEF InboundSpec

\* In the composition nothing happens to an inbox but calls of its methods.
LEMMA InboundImplementsInbox == InboundSpec => InboxSpec
<1>1. InboundInit => InboxInit
  BY DEF InboundInit
<1>2. InboundTypeOK /\ [InboundNext]_vars => [InboxNext]_<<clock, inboxVars>>
  BY InboundIsInbox
<1> QED BY <1>1, <1>2, InboundTypeCorrect, PTL DEF InboundSpec, InboxSpec

\* An admitted message is lost from the inbox only because it expired or
\* because as many later messages came as the inbox has places.
THEOREM DeliveryLossCorrect == InboundSpec => LossIsJustified
  BY InboundImplementsInbox, LossCorrect

-----------------------------------------------------------------------------
(* The guard.                                                              *)

\* What relates the guard's map to the history: an id that it remembers has
\* the time of the last admission, which was of a verified message or of an
\* identity publish request, and an id that it has forgotten was last admitted longer than a window ago.
GuardInv ==
  \A i \in Ids :
    LET last == entered[i]
    IN  /\ last = Never => seen[i] = Never /\ times[i] = 0
        /\ last # Never =>
             /\ seen[i] = last.when \/ clock - last.when > Window
             /\ seen[i] # Never => seen[i] = last.when
             /\ VerifiedOrPublication(last.what)
             /\ Exp[last.what] # 0 => last.when <= Exp[last.what] + Skew
             /\ times[i] > 0
             /\ (times[i] - 1) * (Window + 1) <= last.when

\* The guard forgets only what is older than its window.
LEMMA LastIsOld ==
  ASSUME InboundTypeOK, GuardInv, NEW i \in Ids, Remembered[i] = Never,
         entered[i] # Never
  PROVE  clock - entered[i].when > Window
<1>1. GuardTypeOK /\ clock \in Nat /\ entered[i].when \in Nat
  <2>1. GuardTypeOK /\ clock \in Nat
    BY SplitType DEF TypeOK
  <2>2. entered[i] \in [when : 0 .. clock, what : Items]
    BY <2>1 DEF GuardTypeOK
  <2> QED BY <2>1, <2>2
<1>2. CASE seen[i] = entered[i].when
  <2>1. seen[i] # Never
    BY <1>1, <1>2, NeverIsNotATime
  <2> QED BY <1>1, <1>2, <2>1, RememberedProps
<1>3. CASE clock - entered[i].when > Window
  BY <1>3
<1> QED BY <1>2, <1>3 DEF GuardInv

LEMMA GuardInit == InboundInit => GuardInv
  BY DEF InboundInit, GuardInv

\* GuardInv for one id.
RemembersRightly(i) ==
  LET last == entered[i]
  IN  /\ last = Never => seen[i] = Never /\ times[i] = 0
      /\ last # Never =>
           /\ seen[i] = last.when \/ clock - last.when > Window
           /\ seen[i] # Never => seen[i] = last.when
           /\ VerifiedOrPublication(last.what)
           /\ Exp[last.what] # 0 => last.when <= Exp[last.what] + Skew
           /\ times[i] > 0
           /\ (times[i] - 1) * (Window + 1) <= last.when

\* One id whose record stays, while time may pass and pruning may forget it.
LEMMA QuietId ==
  ASSUME InboundTypeOK, GuardInv, NEW i \in Ids, clock' \in Nat, clock' >= clock,
         seen'[i] = seen[i] \/ seen'[i] = Remembered[i],
         entered'[i] = entered[i], times'[i] = times[i]
  PROVE  RemembersRightly(i)'
<1>1. GuardTypeOK /\ clock \in Nat
  BY SplitType DEF TypeOK
<1>2. RemembersRightly(i)
  BY DEF GuardInv, RemembersRightly
<1>3. Remembered[i] \in {seen[i], Never}
  BY <1>1, RememberedProps
<1>4. CASE entered[i] = Never
  BY <1>2, <1>3, <1>4 DEF RemembersRightly
<1>5. CASE entered[i] # Never
  <2> DEFINE last == entered[i]
  <2>1. last.when \in Nat
    <3>1. last \in [when : 0 .. clock, what : Items]
      BY <1>1, <1>5 DEF GuardTypeOK
    <3> QED BY <3>1
  <2>2. seen'[i] = last.when \/ clock' - last.when > Window
    <3>1. Remembered[i] = Never => clock - last.when > Window
      BY <1>5, LastIsOld
    <3>2. seen[i] = last.when \/ clock - last.when > Window
      BY <1>2, <1>5 DEF RemembersRightly
    <3>3. clock - last.when > Window => clock' - last.when > Window
      BY <1>1, <2>1, WindowAndSkew
    <3> QED BY <1>3, <3>1, <3>2, <3>3
  <2>3. seen'[i] # Never => seen'[i] = last.when
    BY <1>2, <1>3, <1>5 DEF RemembersRightly
  <2> HIDE DEF last
  <2>4. entered'[i] = last /\ last # Never
    BY <1>5 DEF last
  <2>5. /\ VerifiedOrPublication(last.what)
        /\ Exp[last.what] # 0 => last.when <= Exp[last.what] + Skew
        /\ times'[i] > 0
        /\ (times'[i] - 1) * (Window + 1) <= last.when
    BY <1>2, <1>5 DEF RemembersRightly, last
  <2> QED BY <2>2, <2>3, <2>4, <2>5 DEF RemembersRightly, VerifiedOrPublication
<1> QED BY <1>4, <1>5

\* Another admission needs another window's worth of seconds.
LEMMA OneMoreWindow ==
  ASSUME NEW n \in Nat, n > 0, NEW w \in Nat, NEW t \in Nat, NEW c \in Nat,
         (n - 1) * (w + 1) <= t, c - t > w
  PROVE  ((n + 1) - 1) * (w + 1) <= c
<1>1. PICK m \in Nat : n = m + 1
  <2>1. n - 1 \in Nat /\ n = (n - 1) + 1
    OBVIOUS
  <2> QED BY <2>1
<1>2. m * (w + 1) <= t
  BY <1>1
<1>3. (m + 1) * (w + 1) = m * (w + 1) + (w + 1)
  BY <1>1
<1>4. m * (w + 1) \in Int
  BY <1>1
<1>5. m * (w + 1) + (w + 1) <= c
  BY <1>2, <1>4
<1>6. (n + 1) - 1 = m + 1
  BY <1>1
<1> QED BY <1>3, <1>5, <1>6

\* The id that is admitted.
LEMMA AdmittedId ==
  ASSUME InboundTypeOK, GuardInv, NEW s \in Streams, Admit(s), item[s] \in Items,
         NEW i \in Ids, i = item[s].id
  PROVE  RemembersRightly(i)'
<1> PICK x \in Items : x = item[s]
  OBVIOUS
<1>1. GuardTypeOK /\ clock \in Nat /\ times[i] \in Nat
  <2>1. GuardTypeOK /\ clock \in Nat
    BY SplitType DEF TypeOK
  <2> QED BY <2>1 DEF GuardTypeOK
<1>2. /\ seen' = [Remembered EXCEPT ![i] = clock]
      /\ times' = [times EXCEPT ![i] = times[i] + 1]
      /\ Remembered[i] = Never
      /\ Recorded(x)
      /\ clock' = clock
  BY DEF Admit, Recorded, Record
<1>3. seen'[i] = clock /\ times'[i] = times[i] + 1
  BY <1>1, <1>2 DEF GuardTypeOK, Remembered
<1>4. entered'[i] = Record(x)
  BY <1>1, <1>2, RecordedProps
<1>5. Record(x).when = clock /\ Record(x).what = x /\ Record(x) # Never
  <2>1. Record(x) \in [when : Nat, what : Items]
    BY <1>1 DEF Record
  <2> QED BY <2>1, NeverIsNoRecord DEF Record
<1>6. VerifiedOrPublication(x)
  BY DEF Admit, MayCheck, Verifies, VerifiedOrPublication
<1>7. Exp[x] # 0 => clock <= Exp[x] + Skew
  BY DEF Admit, Fresh
<1>8. (times'[i] - 1) * (Window + 1) <= clock
  <2>1. CASE entered[i] = Never
    <3>1. times[i] = 0
      BY <2>1 DEF GuardInv
    <3>2. 0 * (Window + 1) = 0
      BY WindowAndSkew
    <3> QED BY <1>1, <1>3, <3>1, <3>2
  <2>2. CASE entered[i] # Never
    <3> PICK t \in Nat : t = entered[i].when
      BY <1>1, <2>2 DEF GuardTypeOK
    <3>1. clock - t > Window
      BY <1>2, <2>2, LastIsOld
    <3>2. times[i] > 0 /\ (times[i] - 1) * (Window + 1) <= t
      BY <2>2 DEF GuardInv
    <3>3. ((times[i] + 1) - 1) * (Window + 1) <= clock
      BY <1>1, <3>1, <3>2, WindowAndSkew, OneMoreWindow
    <3> QED BY <1>3, <3>3
  <2> QED BY <2>1, <2>2
<1>9. times'[i] > 0
  BY <1>1, <1>3
<1>10. entered'[i].when = clock /\ entered'[i].what = x
       /\ entered'[i] # Never
  BY <1>4, <1>5
<1> QED BY <1>3, <1>6, <1>7, <1>8, <1>9, <1>10 DEF RemembersRightly, VerifiedOrPublication

LEMMA GuardStep ==
  ASSUME InboundTypeOK, GuardInv, [InboundNext]_vars
  PROVE  GuardInv'
<1>1. SUFFICES ASSUME NEW i \in Ids PROVE RemembersRightly(i)'
  BY DEF GuardInv, RemembersRightly
<1>2. clock \in Nat /\ clock' \in Nat /\ clock' >= clock /\ GuardTypeOK
  BY ClockGrows, SplitType
<1>3. CASE UNCHANGED guardVars
  BY <1>2, <1>3, QuietId DEF guardVars
<1>4. CASE seen' = Remembered /\ UNCHANGED <<clock, entered, times>>
  BY <1>2, <1>4, QuietId
<1>5. ASSUME NEW s \in Streams, Admit(s), item[s] \in Items
      PROVE  RemembersRightly(i)'
  <2>1. CASE i = item[s].id
    BY <1>5, <2>1, AdmittedId
  <2>2. CASE i # item[s].id
    <3> PICK x \in Items : x = item[s]
      BY <1>5
    <3> PICK j \in Ids : j = item[s].id /\ j # i
      BY <1>5, <2>2, ItemFacts
    <3>1. /\ seen' = [Remembered EXCEPT ![j] = clock]
          /\ times' = [times EXCEPT ![j] = times[j] + 1]
          /\ Recorded(x)
      BY <1>5 DEF Admit, Recorded, Record
    <3>2. seen'[i] = Remembered[i] /\ times'[i] = times[i]
      BY <1>2, <3>1 DEF GuardTypeOK, Remembered
    <3>3. entered'[i] = entered[i]
      BY <1>2, <3>1, RecordedProps
    <3> QED BY <1>2, <3>2, <3>3, QuietId
  <2> QED BY <2>1, <2>2
<1> QED BY <1>3, <1>4, <1>5, GuardSteps

LEMMA GuardCorrect == InboundSpec => []GuardInv
<1>1. InboundTypeOK /\ GuardInv /\ [InboundNext]_vars => GuardInv'
  BY GuardStep
<1> QED BY <1>1, GuardInit, InboundTypeCorrect, PTL DEF InboundSpec

\* However the tasks of the copies overlap, the guard admits one of them in
\* any window (check_and_insert, prune_old).
THEOREM AtMostOnceCorrect == InboundSpec => NoDuplicateInWindow
<1>1. InboundTypeOK /\ GuardInv /\ [InboundNext]_vars
       => [\A s \in Streams : Admitted(s) => ~Repeats(item'[s].id)]_vars
  <2> SUFFICES ASSUME InboundTypeOK, GuardInv, InboundNext,
                      NEW s \in Streams, Admitted(s)
               PROVE  ~Repeats(item'[s].id)
    OBVIOUS
  <2>1. TaskTypeOK /\ GuardTypeOK /\ clock \in Nat
    BY SplitType DEF TypeOK
  <2>2. at[s] # "admitted" /\ at'[s] = "admitted" /\ at[s] # "free"
    BY DEF Admitted
  <2>3. ASSUME NEW t \in Streams, NEW where, NEW x, Moves(t, where, x),
               where # "admitted" \/ at[t] = "free"
        PROVE  FALSE
    BY <2>1, <2>2, <2>3 DEF Moves, TaskTypeOK
  <2>4. ASSUME NEW t \in Streams,
               \/ GiveUp(t) \/ Mismatch(t) \/ Deliver(t) \/ RefuseStale(t)
               \/ RefuseReplay(t) \/ Decode(t)
        PROVE  FALSE
    <3>1. Moves(t, "free", NoItem) \/ Moves(t, "resolving", item[t])
      BY <2>4 DEF GiveUp, Mismatch, Deliver, RefuseStale, RefuseReplay,
                  Decode, Ends
    <3> QED BY <2>3, <3>1
  <2>5. ASSUME NEW t \in Streams, NEW x, Arrive(t, x) \/ Loopback(t, x)
        PROVE  FALSE
    BY <2>3, <2>5 DEF Arrive, Loopback
  <2>6. ~(Read \/ SecondPasses)
    BY <2>2 DEF Read, SecondPasses, taskVars
  <2>7. PICK t \in Streams : Admit(t)
    BY <2>4, <2>5, <2>6 DEF InboundNext, TaskStep
  <2>8. t = s /\ item'[s] = item[s]
    <3>1. Moves(t, "admitted", item[t])
      BY <2>7 DEF Admit
    <3> QED BY <2>1, <2>2, <3>1 DEF Moves, TaskTypeOK
  <2> PICK x \in Items : x = item[s]
    BY <2>1, <2>2, HeldItem
  <2> PICK i \in Ids : i = x.id
    BY ItemFacts
  <2>9. Remembered[i] = Never
    BY <2>7, <2>8 DEF Admit
  <2>10. CASE entered[i] = Never
    BY <2>8, <2>10 DEF Repeats
  <2>11. CASE entered[i] # Never
    <3> PICK t0 \in Nat : t0 = entered[i].when
      BY <2>1, <2>11 DEF GuardTypeOK
    <3>1. clock - t0 > Window
      BY <2>9, <2>11, LastIsOld
    <3>2. ~(clock - t0 <= Window)
      BY <2>1, <3>1, WindowAndSkew
    <3> QED BY <2>8, <3>2 DEF Repeats
  <2> QED BY <2>10, <2>11
<1> QED BY <1>1, GuardCorrect, InboundTypeCorrect, PTL
        DEF InboundSpec, NoDuplicateInWindow

\* Of a message that expires, no more copies come in than there are windows
\* before the guard takes it for stale.
THEOREM RedeliveryCorrect == InboundSpec => []RedeliveryIsBounded
<1>1. InboundTypeOK /\ GuardInv => RedeliveryIsBounded
  <2> SUFFICES ASSUME InboundTypeOK, GuardInv, NEW i \in Ids, times[i] > 0
               PROVE  /\ (times[i] - 1) * (Window + 1) <= entered[i].when
                      /\ Exp[entered[i].what] # 0 =>
                           (times[i] - 1) * (Window + 1)
                             <= Exp[entered[i].what] + Skew
    BY DEF RedeliveryIsBounded
  <2>1. GuardTypeOK
    BY SplitType
  <2>2. entered[i] # Never
    BY DEF GuardInv
  <2> PICK t \in Nat, x \in Items :
        t = entered[i].when /\ x = entered[i].what
    <3>1. clock \in Nat
      BY SplitType DEF TypeOK
    <3> QED BY <2>1, <2>2, <3>1 DEF GuardTypeOK
  <2>3. (times[i] - 1) * (Window + 1) <= t /\ (Exp[x] # 0 => t <= Exp[x] + Skew)
    BY <2>2 DEF GuardInv
  <2>4. times[i] \in Nat /\ Exp[x] \in Nat
    BY <2>1, ItemFacts DEF GuardTypeOK
  <2> PICK n \in Int : n = (times[i] - 1) * (Window + 1)
    BY <2>4, WindowAndSkew
  <2>5. n <= t /\ (Exp[x] # 0 => n <= Exp[x] + Skew)
    BY <2>3, <2>4, WindowAndSkew
  <2> QED BY <2>5
<1> QED BY <1>1, GuardCorrect, InboundTypeCorrect, PTL

\* A refusal as a replay is due to an admission within the window, of a
\* verified message or of an identity publish request, the one kind that
\* decode inserts without verifying it (check_and_insert, prune_old).
THEOREM RefusalCorrect == InboundSpec => RefusalsHaveACause
<1>1. InboundTypeOK /\ GuardInv /\ [InboundNext]_vars =>
        [\A s \in Streams : RefuseReplay(s) =>
           /\ Repeats(item[s].id)
           /\ VerifiedOrPublication(entered[item[s].id].what)]_vars
  <2> SUFFICES ASSUME InboundTypeOK, GuardInv, NEW s \in Streams, RefuseReplay(s)
               PROVE  /\ Repeats(item[s].id)
                      /\ VerifiedOrPublication(entered[item[s].id].what)
    OBVIOUS
  <2>1. item[s] \in Items
    BY HeldItem, SplitType DEF RefuseReplay, MayCheck
  <2> PICK i \in Ids : i = item[s].id
    BY <2>1, ItemFacts
  <2>2. seen[i] # Never /\ clock - seen[i] <= Window
    BY DEF RefuseReplay, Remembered, Retains
  <2>3. /\ entered[i] # Never /\ seen[i] = entered[i].when
        /\ VerifiedOrPublication(entered[i].what)
    BY <2>2 DEF GuardInv
  <2> QED  BY <2>2, <2>3 DEF Repeats
<1> QED  BY <1>1, GuardCorrect, InboundTypeCorrect, PTL
         DEF InboundSpec, RefusalsHaveACause

-----------------------------------------------------------------------------
(* What the actor reads.                                                   *)

\* The wire form is the one for the kind of message, and for us.
RightForm(x) == IF x.broadcast THEN ~x.encrypted ELSE x.encrypted /\ x.forUs

Checked(x) == x \in Local \/ (VerifiedOrPublication(x) /\ RightForm(x))

CheckedEntries == {e \in Entries : Checked(e.item)}

\* A task in the resolver has decoded its payload; a task that is through the
\* guard, the queue and what was returned hold only what was checked.
CheckedInv ==
  /\ \A s \in Streams :
       /\ at[s] = "resolving" => RightForm(item[s])
       /\ at[s] = "admitted" => Checked(item[s])
  /\ queue \in Seq(CheckedEntries)
  /\ got \in Seq(CheckedEntries)

LEMMA DecodableIsRight ==
  ASSUME NEW x \in Items, Decodable(x)
  PROVE  RightForm(x)
BY ItemsAreMessages DEF Decodable, RightForm

\* A task that is moved keeps the part of CheckedInv about tasks if it may be
\* where it is moved to.
LEMMA MovesChecked ==
  ASSUME TaskTypeOK, CheckedInv, NEW s \in Streams, NEW where, NEW x, Moves(s, where, x),
         where = "resolving" => RightForm(x),
         where = "admitted" => Checked(x)
  PROVE  \A t \in Streams :
           /\ at'[t] = "resolving" => RightForm(item'[t])
           /\ at'[t] = "admitted" => Checked(item'[t])
BY DEF TaskTypeOK, CheckedInv, Moves

LEMMA ReadChecked ==
  ASSUME CheckedInv, NEW now \in Nat, Pop(now) \/ Drain(now)
  PROVE  queue' \in Seq(CheckedEntries) /\ got' \in Seq(CheckedEntries)
<1>1. queue \in Seq(CheckedEntries)
  BY DEF CheckedInv
<1>2. CASE Drain(now)
  <2>1. Evict(queue, now) \in Seq(CheckedEntries)
    BY <1>1, EvictBehind
  <2> QED  BY <1>2, <2>1 DEF Drain
<1>3. CASE Pop(now)
  <2>1. \/ Front(queue, now) = <<>> /\ Popped(queue, now) = <<>>
        \/ \E d \in 1 .. Len(queue) :
             /\ Front(queue, now) = <<queue[d]>>
             /\ Popped(queue, now) \in Seq(CheckedEntries)
    BY <1>1, PoppedProps
  <2>2. \A d \in 1 .. Len(queue) : <<queue[d]>> \in Seq(CheckedEntries)
    BY <1>1
  <2>3. queue' = Popped(queue, now) /\ got' = Front(queue, now)
    BY <1>3 DEF Pop
  <2>4. CASE Front(queue, now) = <<>> /\ Popped(queue, now) = <<>>
    BY <2>3, <2>4
  <2>5. ASSUME NEW d \in 1 .. Len(queue), Front(queue, now) = <<queue[d]>>,
               Popped(queue, now) \in Seq(CheckedEntries)
        PROVE  queue' \in Seq(CheckedEntries) /\ got' \in Seq(CheckedEntries)
    BY <2>2, <2>3, <2>5
  <2> QED  BY <2>1, <2>4, <2>5
<1> QED  BY <1>2, <1>3

LEMMA PushChecked ==
  ASSUME TypeOK, CheckedInv, NEW now \in Nat, NEW x \in Items, Checked(x), Push(now, x)
  PROVE  queue' \in Seq(CheckedEntries) /\ got' \in Seq(CheckedEntries)
<1>1. NewEntry(x) \in CheckedEntries
  BY NewEntryType DEF CheckedEntries, NewEntry
<1>2. PICK r \in Seq(CheckedEntries), d \in 0 .. Len(queue) :
        PushKeeps(queue, now, NewEntry(x), r, d)
  BY <1>1, PushedProps DEF CheckedInv, TypeOK
<1>3. queue' = Append(r, NewEntry(x)) /\ got' = <<>>
  BY <1>2 DEF Push, NewEntry, PushKeeps
<1> QED  BY <1>1, <1>3

LEMMA CheckedStep == InboundTypeOK /\ CheckedInv /\ [InboundNext]_vars => CheckedInv'
<1> SUFFICES ASSUME InboundTypeOK, CheckedInv, [InboundNext]_vars PROVE CheckedInv'
  OBVIOUS
<1>1. TypeOK /\ TaskTypeOK /\ clock \in Nat
  BY SplitType DEF TypeOK
<1>2. ASSUME NEW s \in Streams, Ends(s), UNCHANGED inboxVars PROVE CheckedInv'
  <2>1. \A t \in Streams :
          /\ at'[t] = "resolving" => RightForm(item'[t])
          /\ at'[t] = "admitted" => Checked(item'[t])
    BY <1>1, <1>2, MovesChecked DEF Ends
  <2> QED  BY <1>2, <2>1 DEF CheckedInv, inboxVars
<1>3. ASSUME NEW s \in Streams,
             GiveUp(s) \/ Mismatch(s) \/ RefuseStale(s) \/ RefuseReplay(s)
      PROVE  CheckedInv'
  BY <1>2, <1>3 DEF GiveUp, Mismatch, RefuseStale, RefuseReplay
<1>4. ASSUME NEW s \in Streams, NEW x, Arrive(s, x) PROVE CheckedInv'
  <2>1. \A t \in Streams :
          /\ at'[t] = "resolving" => RightForm(item'[t])
          /\ at'[t] = "admitted" => Checked(item'[t])
    BY <1>1, <1>4, MovesChecked DEF Arrive
  <2> QED  BY <1>4, <2>1 DEF Arrive, CheckedInv, inboxVars
<1>5. ASSUME NEW s \in Streams, NEW x \in Local, Loopback(s, x) PROVE CheckedInv'
  <2>1. \A t \in Streams :
          /\ at'[t] = "resolving" => RightForm(item'[t])
          /\ at'[t] = "admitted" => Checked(item'[t])
    BY <1>1, <1>5, MovesChecked DEF Loopback, Checked
  <2> QED  BY <1>5, <2>1 DEF Loopback, CheckedInv, inboxVars
<1>6. ASSUME NEW s \in Streams, Decode(s) PROVE CheckedInv'
  <2>1. item[s] \in Items
    BY <1>1, <1>6, HeldItem DEF Decode
  <2>2. CASE Decodable(item[s])
    <3>1. Moves(s, "resolving", item[s]) /\ RightForm(item[s])
      BY <1>6, <2>1, <2>2, DecodableIsRight DEF Decode
    <3>2. \A t \in Streams :
            /\ at'[t] = "resolving" => RightForm(item'[t])
            /\ at'[t] = "admitted" => Checked(item'[t])
      BY <1>1, <3>1, MovesChecked
    <3> QED  BY <1>6, <3>2 DEF Decode, CheckedInv, inboxVars
  <2>3. CASE ~Decodable(item[s])
    BY <1>2, <1>6, <2>3 DEF Decode
  <2> QED  BY <2>2, <2>3
<1>7. ASSUME NEW s \in Streams, Admit(s) PROVE CheckedInv'
  <2>1. item[s] \in Items
    BY <1>1, <1>7, HeldItem DEF Admit, MayCheck
  <2>2. Checked(item[s])
    <3>1. CASE at[s] = "arrived" /\ Decodable(item[s]) /\ item[s].identityPublish
      BY <2>1, <3>1, DecodableIsRight DEF Checked, VerifiedOrPublication
    <3>2. CASE at[s] = "resolving" /\ Verifies(item[s])
      BY <3>2 DEF CheckedInv, Verifies, Checked, VerifiedOrPublication
    <3> QED  BY <1>7, <3>1, <3>2 DEF Admit, MayCheck
  <2>3. \A t \in Streams :
          /\ at'[t] = "resolving" => RightForm(item'[t])
          /\ at'[t] = "admitted" => Checked(item'[t])
    BY <1>1, <1>7, <2>2, MovesChecked DEF Admit
  <2> QED  BY <1>7, <2>3 DEF Admit, CheckedInv, inboxVars
<1>8. ASSUME NEW s \in Streams, Deliver(s) PROVE CheckedInv'
  <2>1. item[s] \in Items /\ Checked(item[s])
    BY <1>1, <1>8, HeldItem DEF Deliver, CheckedInv
  <2>2. PICK now \in since[s] .. clock : Push(now, item[s])
    BY <1>8 DEF Deliver
  <2>3. now \in Nat
    BY <1>1 DEF TaskTypeOK
  <2>4. queue' \in Seq(CheckedEntries) /\ got' \in Seq(CheckedEntries)
    BY <1>1, <2>1, <2>2, <2>3, PushChecked
  <2>5. \A t \in Streams :
          /\ at'[t] = "resolving" => RightForm(item'[t])
          /\ at'[t] = "admitted" => Checked(item'[t])
    BY <1>1, <1>8, MovesChecked DEF Deliver, Ends
  <2> QED  BY <2>4, <2>5 DEF CheckedInv
<1>9. CASE Read
  <2>1. queue' \in Seq(CheckedEntries) /\ got' \in Seq(CheckedEntries)
    BY <1>1, <1>9, ReadChecked DEF Read
  <2> QED  BY <1>9, <2>1 DEF Read, taskVars, CheckedInv
<1>10. CASE SecondPasses
  BY <1>10 DEF SecondPasses, Tick, taskVars, inboxVars, CheckedInv
<1>11. CASE UNCHANGED vars
  BY <1>11 DEF vars, taskVars, inboxVars, CheckedInv
<1> QED
  BY <1>3, <1>4, <1>5, <1>6, <1>7, <1>8, <1>9, <1>10, <1>11 DEF InboundNext, TaskStep

\* No message gets past the checks of InboundSecurity::decode, in any
\* interleaving of stream tasks and of the queue's evictions.
THEOREM CheckedCorrect == InboundSpec => []ActorSeesOnlyChecked
<1>1. InboundInit => CheckedInv
  BY DEF InboundInit, InboxInit, CheckedInv
<1>2. CheckedInv => ActorSeesOnlyChecked
  <2> SUFFICES ASSUME CheckedInv, NEW e \in In(got), e.item \notin Local
               PROVE  VerifiedOrPublication(e.item) /\ RightForm(e.item)
    BY DEF ActorSeesOnlyChecked, RightForm
  <2>1. e \in CheckedEntries
    BY DEF CheckedInv, In
  <2> QED  BY <2>1 DEF CheckedEntries, Checked
<1> QED  BY <1>1, <1>2, CheckedStep, InboundTypeCorrect, PTL DEF InboundSpec
=============================================================================
