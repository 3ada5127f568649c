-------------------------- MODULE FactoryIdsProofs --------------------------
(***************************************************************************)
(* Theorems about FactoryIds, for every modulus of the ids, every capacity, *)
(* both services and any number of flows.                                   *)
(***************************************************************************)
EXTENDS FactoryIds, FiniteSetTheorems, SequenceTheorems, WellFoundedInduction, TLAPS

(***************************************************************************)
(* Sequences that lose an element, and the places of their elements.       *)
(***************************************************************************)

Places(s, T) == {i \in 1..Len(s) : s[i] \in T}
Count(s, T)  == Cardinality(Places(s, T))

\* r is s without its element at place i.
Without(r, s, i) ==
    /\ Len(r) = Len(s) - 1
    /\ \A j \in 1..Len(r) : r[j] = IF j < i THEN s[j] ELSE s[j + 1]

\* What Tail leaves of a sequence.
LEMMA TailWithout ==
    ASSUME NEW S, NEW s \in Seq(S), s # <<>>
    PROVE  Tail(s) \in Seq(S) /\ Without(Tail(s), s, 1)
BY DEF Without

\* What SubSeq takes of a sequence.
LEMMA PartOf ==
    ASSUME NEW S, NEW s \in Seq(S), NEW m \in Nat, NEW n \in 0..Len(s), m >= 1, m <= n + 1
    PROVE  /\ SubSeq(s, m, n) \in Seq(S) /\ Len(SubSeq(s, m, n)) = n + 1 - m
           /\ \A j \in 1..(n + 1 - m) : SubSeq(s, m, n)[j] = s[m + j - 1]
<1>1. m \in Int /\ n \in Int /\ \A j \in m..n : s[j] \in S
    OBVIOUS
<1>2. /\ SubSeq(s, m, n) \in Seq(S)
      /\ Len(SubSeq(s, m, n)) = IF m <= n THEN n - m + 1 ELSE 0
      /\ \A j \in 1..(n - m + 1) : SubSeq(s, m, n)[j] = s[m + j - 1]
    BY <1>1, SubSeqProperties
<1>3. n - m + 1 = n + 1 - m /\ (m <= n \/ n + 1 - m = 0)
    OBVIOUS
<1> QED
    BY <1>2, <1>3

\* What RemoveAt leaves of a sequence.
LEMMA RemoveAtWithout ==
    ASSUME NEW S, NEW s \in Seq(S), NEW i \in 1..Len(s)
    PROVE  RemoveAt(s, i) \in Seq(S) /\ Without(RemoveAt(s, i), s, i)
<1> DEFINE before == SubSeq(s, 1, i - 1)
           after  == SubSeq(s, i + 1, Len(s))
<1>1. Len(s) \in Nat /\ i \in Nat /\ i >= 1 /\ i <= Len(s)
    OBVIOUS
<1>2. /\ before \in Seq(S) /\ Len(before) = i - 1
      /\ \A j \in 1..(i - 1) : before[j] = s[j]
    <2>1. PICK n \in 0..Len(s) : n = i - 1
        BY <1>1
    <2>2. /\ SubSeq(s, 1, n) \in Seq(S) /\ Len(SubSeq(s, 1, n)) = n + 1 - 1
          /\ \A j \in 1..(n + 1 - 1) : SubSeq(s, 1, n)[j] = s[1 + j - 1]
        BY PartOf
    <2>3. n + 1 - 1 = n /\ \A j \in 1..n : 1 + j - 1 = j
        OBVIOUS
    <2> QED
        BY <2>1, <2>2, <2>3
<1>3. /\ after \in Seq(S) /\ Len(after) = Len(s) - i
      /\ \A j \in 1..(Len(s) - i) : after[j] = s[i + j]
    <2>1. PICK m \in Nat, n \in 0..Len(s) : m = i + 1 /\ n = Len(s) /\ m >= 1 /\ m <= n + 1
        BY <1>1
    <2>2. /\ SubSeq(s, m, n) \in Seq(S) /\ Len(SubSeq(s, m, n)) = n + 1 - m
          /\ \A j \in 1..(n + 1 - m) : SubSeq(s, m, n)[j] = s[m + j - 1]
        BY <2>1, PartOf
    <2>3. n + 1 - m = Len(s) - i /\ \A j \in 1..(Len(s) - i) : m + j - 1 = i + j
        BY <1>1, <2>1
    <2> QED
        BY <2>1, <2>2, <2>3
<1>4. RemoveAt(s, i) = before \o after
    BY DEF RemoveAt
<1> HIDE DEF before, after
<1>5. /\ before \o after \in Seq(S) /\ Len(before \o after) = Len(s) - 1
      /\ \A j \in 1..(Len(s) - 1) :
            (before \o after)[j] =
                IF j <= Len(before) THEN before[j] ELSE after[j - Len(before)]
    <2>1. /\ before \o after \in Seq(S) /\ Len(before \o after) = Len(before) + Len(after)
          /\ \A j \in 1..(Len(before) + Len(after)) :
            (before \o after)[j] =
                IF j <= Len(before) THEN before[j] ELSE after[j - Len(before)]
        BY <1>2, <1>3, ConcatProperties
    <2>2. Len(before) + Len(after) = Len(s) - 1
        BY <1>1, <1>2, <1>3
    <2> QED
        BY <2>1, <2>2
<1>6. ASSUME NEW j \in 1..(Len(s) - 1)
      PROVE  (before \o after)[j] = IF j < i THEN s[j] ELSE s[j + 1]
    <2>1. CASE j < i
        BY <1>1, <1>2, <1>5, <2>1
    <2>2. CASE ~(j < i)
        <3>1. j - Len(before) \in 1..(Len(s) - i) /\ i + (j - Len(before)) = j + 1
            BY <1>1, <1>2, <2>2
        <3>2. after[j - Len(before)] = s[j + 1]
            BY <1>3, <3>1
        <3> QED
            BY <1>1, <1>2, <1>5, <2>2, <3>2
    <2> QED
        BY <2>1, <2>2
<1> QED
    BY <1>4, <1>5, <1>6 DEF Without

\* The last element of a sequence is replaced.
LEMMA ChangeLast ==
    ASSUME NEW S, NEW s \in Seq(S), NEW old \in S, NEW new \in S
    PROVE  [Append(s, old) EXCEPT ![Len(s) + 1] = new] = Append(s, new)
<1> DEFINE a == Append(s, old)
           b == Append(s, new)
           c == [a EXCEPT ![Len(s) + 1] = new]
<1>1. /\ a \in Seq(S) /\ Len(a) = Len(s) + 1 /\ \A i \in 1..Len(s) : a[i] = s[i]
      /\ b \in Seq(S) /\ Len(b) = Len(s) + 1 /\ \A i \in 1..Len(s) : b[i] = s[i]
      /\ b[Len(s) + 1] = new /\ Len(s) \in Nat
    OBVIOUS
<1> HIDE DEF a, b
<1>2. /\ c \in Seq(S) /\ Len(c) = Len(s) + 1 /\ c[Len(s) + 1] = new
      /\ \A i \in 1..Len(s) : c[i] = a[i]
    BY <1>1
<1> HIDE DEF c
<1>3. \A i \in 1..Len(c) : c[i] = b[i]
    BY <1>1, <1>2
<1>4. c = b
    BY <1>1, <1>2, <1>3, SeqEqual
<1> QED
    BY <1>4 DEF a, b, c

\* The places in a sequence are finitely many.
LEMMA CountType ==
    ASSUME NEW S, NEW s \in Seq(S), NEW T
    PROVE  IsFiniteSet(Places(s, T)) /\ Count(s, T) \in Nat
<1>1. IsFiniteSet(1..Len(s)) /\ Places(s, T) \in SUBSET (1..Len(s))
    BY FS_Interval DEF Places
<1> QED
    BY <1>1, FS_Subset, FS_CardinalityType DEF Count

\* An element that is appended counts once.
LEMMA CountAppend ==
    ASSUME NEW S, NEW s \in Seq(S), NEW x \in S, NEW T
    PROVE  Count(Append(s, x), T) = IF x \in T THEN Count(s, T) + 1 ELSE Count(s, T)
<1>1. IsFiniteSet(Places(s, T))
    BY CountType
<1>2. Len(s) + 1 \notin Places(s, T)
    BY DEF Places
<1>3. x \in T => Places(Append(s, x), T) = Places(s, T) \cup {Len(s) + 1}
    BY DEF Places
<1>4. x \notin T => Places(Append(s, x), T) = Places(s, T)
    BY DEF Places
<1> QED
    BY <1>1, <1>2, <1>3, <1>4, FS_AddElement DEF Count

\* An element that is taken out no longer counts.
LEMMA CountWithout ==
    ASSUME NEW S, NEW s \in Seq(S), NEW i \in 1..Len(s), NEW r \in Seq(S),
           Without(r, s, i), NEW T
    PROVE  Count(r, T) = IF s[i] \in T THEN Count(s, T) - 1 ELSE Count(s, T)
<1> DEFINE others == Places(s, T) \ {i}
           move == [j \in Places(r, T) |-> IF j < i THEN j ELSE j + 1]
<1>1. /\ IsFiniteSet(others)
      /\ Cardinality(others) = IF s[i] \in T THEN Count(s, T) - 1 ELSE Count(s, T)
    <2>1. IsFiniteSet(Places(s, T)) /\ (i \in Places(s, T) <=> s[i] \in T)
        BY CountType DEF Places
    <2> QED
        BY <2>1, FS_RemoveElement DEF Count
<1>2. IsFiniteSet(Places(r, T))
    BY CountType
<1>3. ASSUME NEW j \in Places(r, T) PROVE move[j] \in others
    BY DEF Places, Without
<1>4. ASSUME NEW j \in Places(r, T), NEW k \in Places(r, T), move[j] = move[k] PROVE j = k
    BY <1>4 DEF Places
<1>5. ASSUME NEW k \in others PROVE \E j \in Places(r, T) : move[j] = k
    <2>1. CASE k < i
        <3>1. k \in 1..Len(r) /\ r[k] = s[k] /\ s[k] \in T
            BY <2>1 DEF Places, Without
        <3>2. k \in Places(r, T)
            BY <3>1 DEF Places
        <3> QED
            BY <2>1, <3>2
    <2>2. CASE ~(k < i)
        <3>1. /\ k - 1 \in 1..Len(r) /\ ~(k - 1 < i) /\ (k - 1) + 1 = k
              /\ r[k - 1] = s[k] /\ s[k] \in T
            BY <2>2 DEF Places, Without
        <3>2. k - 1 \in Places(r, T)
            BY <3>1 DEF Places
        <3> QED
            BY <3>1, <3>2
    <2> QED
        BY <2>1, <2>2
<1>6. move \in Bijection(Places(r, T), others)
    <2> HIDE DEF others
    <2>1. move \in [Places(r, T) -> others]
        BY <1>3
    <2> HIDE DEF move
    <2> QED
        BY <1>4, <1>5, <2>1 DEF Bijection, Injection, Surjection, IsInjective
<1>7. ExistsBijection(Places(r, T), others)
    BY <1>6 DEF ExistsBijection
<1>8. Cardinality(others) = Cardinality(Places(r, T))
    <2> HIDE DEF others, move
    <2> QED
        BY <1>2, <1>7, FS_Bijection
<1> QED
    BY <1>1, <1>8 DEF Count
-----------------------------------------------------------------------------
(* The inductive invariant.  Both properties need that the list holds no    *)
(* FSM in IDLE or KILL_FSM between two dispatches (Working), and that every *)
(* event has a row in WORKING (Expected): otherwise a message would be used *)
(* up with no FSM reported.  KillsTheReported needs that no FSM in the list *)
(* was reported before (ObjsInv).                                           *)

HasId(id) == {f \in Fsm : f.id = id}
ForId(id) == {m \in Msg : m.fsmId = id}
Inits     == {m \in Msg : m.type = "MSG_INIT"}

\* The events an FSM of the factory can take once it has begun.
Events == {row.event : row \in {r \in Transitions(Service) : r.from = "WORKING"}}

ObjsInv ==
    /\ \A i \in 1..Len(fsms) : fsms[i].obj >= 1 /\ fsms[i].obj <= created
    /\ \A i, j \in 1..Len(fsms) : fsms[i].obj = fsms[j].obj => i = j
    /\ \A k \in 1..Len(ended) : ended[k].reported <= created
    /\ \A i \in 1..Len(fsms), k \in 1..Len(ended) : fsms[i].obj # ended[k].reported

Working == \A i \in 1..Len(fsms) : fsms[i].state = "WORKING"

Expected ==
    /\ \A i \in 1..Len(pump) :
          IF pump[i].type = "MSG_INIT" THEN pump[i].fsmId = 0 ELSE pump[i].type \in Events
    /\ \A i \in 1..Len(sleeping) : sleeping[i].type \in Events

Balanced ==
    \A id \in Ids \ {0} :
        Count(fsms, HasId(id)) = Count(pump, ForId(id)) + Count(sleeping, ForId(id))

Bounded == created + Count(pump, Inits) <= posted

IdsInv == TypeOK /\ ObjsInv /\ KillsTheReported /\ Working /\ Expected /\ Balanced /\ Bounded
-----------------------------------------------------------------------------
(* The first of the FSMs with an id.                                        *)

\* Every non-empty set of naturals has a least element.
LEMMA NatLeast ==
    ASSUME NEW T, T \subseteq Nat, T # {}
    PROVE  \E n \in T : \A m \in T : n <= m
<1> DEFINE Sets == {0..n : n \in T}
<1>1. Sets \subseteq FiniteSubsetsOf(Nat)
    <2>1. \A n \in T : 0..n \subseteq Nat /\ IsFiniteSet(0..n)
        BY FS_Interval
    <2> QED
        BY <2>1 DEF FiniteSubsetsOf
<1>2. IsWellFoundedOn(StrictSubsetOrdering(Nat), FiniteSubsetsOf(Nat))
    BY FS_StrictSubsetOrderingWellFounded
<1>3. Sets # {}
    OBVIOUS
<1>4. PICK x \in Sets : \A y \in Sets : ~(<<y, x>> \in StrictSubsetOrdering(Nat))
    <2> HIDE DEF Sets
    <2> QED
        BY <1>1, <1>2, <1>3, WFMin
<1>5. PICK n \in T : x = 0..n
    OBVIOUS
<1>6. ASSUME NEW m \in T PROVE n <= m
    <2>1. n \in Nat /\ m \in Nat
        OBVIOUS
    <2>2. SUFFICES ASSUME m < n PROVE FALSE
        BY <2>1
    <2>3. 0..m \subseteq 0..n /\ 0..m # 0..n /\ 0..m \in SUBSET Nat /\ 0..n \in SUBSET Nat
        BY <2>1, <2>2
    <2>4. <<0..m, 0..n>> \in StrictSubsetOrdering(Nat)
        BY <2>3 DEF StrictSubsetOrdering
    <2> QED
        BY <1>4, <1>5, <2>4
<1> QED
    BY <1>6

\* First is one of the places it is given.
LEMMA FirstFound ==
    ASSUME NEW found, found \subseteq Nat, found # {}
    PROVE  First(found) \in found
BY NatLeast DEF First


\* A new FSM has a row for MSG_INIT; a row either goes on in WORKING, with an
\* event that has a row there, or ends the FSM.
Follows(table) ==
    /\ \E r \in table : r.from = "IDLE" /\ r.event = "MSG_INIT"
    /\ \A r \in table :
          /\ r.to \in Tstate /\ r.hasNext \in BOOLEAN
          /\ r.from = "IDLE" => r.hasNext
          /\ r.from = "WORKING" => r.event \in MsgType \ {"MSG_INIT"}
          /\ r.hasNext => /\ r.to = "WORKING"
                          /\ \E n \in table : n.from = "WORKING" /\ n.event = r.nextEvent

\* Both tables are made so.
LEMMA RowsFollow == Follows(Transitions(Service)) /\ Events \subseteq MsgType \ {"MSG_INIT"}
<1>1. Follows(RegTransitions)
    BY DEF Follows, RegTransitions, Row, MsgType, Tstate
<1>2. Follows(AuthTransitions)
    BY DEF Follows, AuthTransitions, Row, MsgType, Tstate
<1>3. Follows(Transitions(Service))
    BY <1>1, <1>2 DEF Transitions
<1> QED
    BY <1>3 DEF Follows, Events

\* A row that has a next event goes to WORKING with an event expected there.
LEMMA RowGoesOn ==
    ASSUME NEW row \in Transitions(Service), row.hasNext
    PROVE  row.to = "WORKING" /\ row.nextEvent \in Events
BY RowsFollow DEF Follows, Events

\* The next event of a row that has one goes to the pump or to a timer.
Moved(m) ==
    \/ pump' = Append(Tail(pump), m) /\ UNCHANGED sleeping
    \/ pump' = Tail(pump) /\ sleeping' = Append(sleeping, m)

\* PostNextEvent moves an event that the FSM expects, with its id.
LEMMA PostMoves ==
    ASSUME NEW row \in Transitions(Service), row.hasNext, NEW msg, NEW fsm \in Fsm,
           PostNextEvent(row, msg, fsm)
    PROVE  \E m \in Msg : m.type \in Events /\ m.fsmId = fsm.id /\ Moved(m)
<1>1. row.nextEvent \in Events /\ row.nextEvent \in MsgType /\ fsm.id \in Ids
    BY RowGoesOn, RowsFollow DEF Fsm
<1>2. Continued(row, msg, fsm) = [type |-> row.nextEvent, fsmId |-> fsm.id]
    BY DEF Continued
<1>3. Continued(row, msg, fsm) \in Msg /\ Moved(Continued(row, msg, fsm))
    BY <1>1, <1>2 DEF Msg, Moved, PostNextEvent
<1> QED
    BY <1>1, <1>2, <1>3

\* A message for a live FSM takes it on, and is replaced by its next event, or
\* ends it: the FSM destroyed is the one at the place found for the message.
LEMMA KnownEffect ==
    ASSUME IdsInv, ToKnown
    PROVE  /\ pump # <<>> /\ Head(pump).fsmId # 0
           /\ UNCHANGED <<nextFsmId, posted, created>>
           /\ \E i \in 1..Len(fsms) :
                 /\ fsms[i].id = Head(pump).fsmId
                 /\ \/ /\ UNCHANGED <<fsms, ended>>
                       /\ \E m \in Msg : m.type \in Events /\ m.fsmId = fsms[i].id /\ Moved(m)
                    \/ /\ pump' = Tail(pump) /\ UNCHANGED sleeping
                       /\ fsms' \in Seq(Fsm) /\ Without(fsms', fsms, i)
                       /\ ended' = Append(ended, [reported |-> fsms[i].obj,
                                                  erased |-> fsms[i].obj])
<1> DEFINE id == Head(pump).fsmId
           i  == First(WithId(fsms, id))
<1>1. /\ pump # <<>> /\ FindFsm(id) # 0 /\ UNCHANGED <<nextFsmId, posted, created>>
      /\ DispatchToFsm(fsms, FindFsm(id), Head(pump))
    BY DEF ToKnown
<1>2. id # 0 /\ WithId(fsms, id) # {} /\ FindFsm(id) = i
    BY <1>1 DEF FindFsm
<1>3. i \in WithId(fsms, id)
    BY <1>2, FirstFound DEF WithId
<1>4. /\ i \in 1..Len(fsms) /\ fsms[i].id = id /\ fsms \in Seq(Fsm) /\ fsms[i] \in Fsm
      /\ fsms[i].state = "WORKING"
    BY <1>3 DEF WithId, IdsInv, TypeOK, Working
<1>5. PlaceToErase(fsms, fsms[i].id) = i
    BY <1>4 DEF PlaceToErase
<1> HIDE DEF i
<1> DEFINE rows == FindFsmTransition(Transitions(Service), fsms[i].state, Head(pump).type)
<1>6. rows # {}
    <2>1. Head(pump) = pump[1] /\ 1 \in 1..Len(pump)
        BY <1>1 DEF IdsInv, TypeOK
    <2>2. Head(pump).type \in Events
        BY <1>2, <2>1 DEF IdsInv, Expected
    <2> QED
        BY <1>4, <2>2 DEF Events, FindFsmTransition
<1>7. PICK row \in rows :
          \/ /\ row.hasNext /\ PostNextEvent(row, Head(pump), fsms[i])
             /\ fsms' = [fsms EXCEPT ![i].state = row.to]
             /\ UNCHANGED ended
          \/ /\ ~row.hasNext /\ pump' = Tail(pump)
             /\ fsms' = RemoveAt([fsms EXCEPT ![i].state = row.to], i)
             /\ ended' = Append(ended, [reported |-> fsms[i].obj, erased |-> fsms[i].obj])
             /\ UNCHANGED sleeping
    BY <1>1, <1>2, <1>5, <1>6 DEF DispatchToFsm
<1>8. row \in Transitions(Service)
    BY <1>7 DEF FindFsmTransition
<1>9. CASE row.hasNext
    <2>1. row.to = "WORKING"
        BY <1>8, <1>9, RowGoesOn
    <2>2. fsms' = fsms
        BY <1>4, <1>7, <1>9, <2>1 DEF Fsm
    <2>3. \E m \in Msg : m.type \in Events /\ m.fsmId = fsms[i].id /\ Moved(m)
        BY <1>4, <1>7, <1>8, <1>9, PostMoves
    <2> QED
        BY <1>1, <1>2, <1>4, <1>7, <1>9, <2>2, <2>3
<1>10. CASE ~row.hasNext
    <2> DEFINE list == [fsms EXCEPT ![i].state = row.to]
    <2>1. row.to \in Tstate
        BY <1>8, RowsFollow DEF Follows
    <2>2. /\ list \in Seq(Fsm) /\ Len(list) = Len(fsms)
          /\ \A j \in 1..Len(fsms) : j # i => list[j] = fsms[j]
        BY <1>4, <2>1 DEF Fsm
    <2>3. fsms' = RemoveAt(list, i)
        BY <1>7, <1>10
    <2> HIDE DEF list
    <2>4. fsms' \in Seq(Fsm) /\ Without(fsms', list, i)
        BY <1>4, <2>2, <2>3, RemoveAtWithout
    <2>5. Without(fsms', fsms, i)
        BY <1>4, <2>2, <2>4 DEF Without
    <2> QED
        BY <1>1, <1>2, <1>4, <1>7, <1>10, <2>4, <2>5
<1>11. row.hasNext \in BOOLEAN
    BY <1>8, RowsFollow DEF Follows
<1> QED
    BY <1>9, <1>10, <1>11

\* MSG_INIT makes a new FSM, which the same dispatch takes to WORKING.
LEMMA NewEffect ==
    ASSUME IdsInv, ToNew
    PROVE  /\ pump # <<>> /\ Head(pump).type = "MSG_INIT" /\ Head(pump).fsmId = 0
           /\ created' = created + 1 /\ nextFsmId' = NextId /\ UNCHANGED <<posted, ended>>
           /\ fsms' = Append(fsms, [obj |-> created + 1, id |-> nextFsmId, state |-> "WORKING"])
           /\ created + 1 \in Objs
           /\ \E m \in Msg : m.type \in Events /\ m.fsmId = nextFsmId /\ Moved(m)
<1> DEFINE fsm  == [obj |-> created + 1, id |-> nextFsmId, state |-> "IDLE"]
           list == Append(fsms, fsm)
           i    == Len(fsms) + 1
<1>1. /\ pump # <<>> /\ Head(pump).type = "MSG_INIT" /\ DispatchToFsm(list, i, Head(pump))
      /\ created' = created + 1 /\ nextFsmId' = NextId /\ UNCHANGED posted
    BY DEF ToNew
<1>2. Head(pump) = pump[1] /\ 1 \in 1..Len(pump) /\ pump[1] \in Msg
    BY <1>1 DEF IdsInv, TypeOK
<1>3. Head(pump).fsmId = 0
    BY <1>1, <1>2 DEF IdsInv, Expected
<1>4. created + 1 \in Objs
    <2>1. Count(Tail(pump), Inits) = Count(pump, Inits) - 1 /\ Count(Tail(pump), Inits) \in Nat
        <3>1. pump \in Seq(Msg) /\ pump[1] \in Inits
            BY <1>1, <1>2 DEF Inits, IdsInv, TypeOK
        <3>2. Tail(pump) \in Seq(Msg) /\ Without(Tail(pump), pump, 1)
            BY <1>1, <3>1, TailWithout
        <3> QED
            BY <1>2, <3>1, <3>2, CountWithout, CountType
    <2>2. Count(pump, Inits) \in Nat
        BY CountType DEF IdsInv, TypeOK
    <2> QED
        BY <2>1, <2>2, IdAssumption DEF IdsInv, TypeOK, Bounded, Objs
<1>5. fsm \in Fsm /\ fsms \in Seq(Fsm) /\ list[i] = fsm
    BY <1>4 DEF Fsm, Tstate, IdsInv, TypeOK
<1> DEFINE rows == FindFsmTransition(Transitions(Service), "IDLE", "MSG_INIT")
<1>6. /\ rows # {}
      /\ \A row \in rows : row \in Transitions(Service) /\ row.hasNext /\ row.to = "WORKING"
    BY RowsFollow, RowGoesOn DEF Follows, FindFsmTransition
<1>7. PICK row \in rows : /\ PostNextEvent(row, Head(pump), fsm)
                          /\ fsms' = [list EXCEPT ![i].state = row.to]
                          /\ UNCHANGED ended
    <2>1. fsm.state = "IDLE"
        OBVIOUS
    <2> HIDE DEF fsm, list, i, rows
    <2>2. rows = FindFsmTransition(Transitions(Service), list[i].state, Head(pump).type)
        BY <1>1, <1>5, <2>1 DEF rows
    <2> QED
        BY <1>1, <1>5, <1>6, <2>2 DEF DispatchToFsm
<1>8. fsms' = Append(fsms, [obj |-> created + 1, id |-> nextFsmId, state |-> "WORKING"])
    <2>1. [fsm EXCEPT !.state = "WORKING"] =
              [obj |-> created + 1, id |-> nextFsmId, state |-> "WORKING"]
        OBVIOUS
    <2>2. PICK old, new : /\ old = fsm /\ new = [fsm EXCEPT !.state = "WORKING"]
                          /\ fsms' = [list EXCEPT ![i] = new]
        <3> HIDE DEF fsm
        <3> QED
            BY <1>5, <1>6, <1>7
    <2>3. fsms' = [Append(fsms, old) EXCEPT ![Len(fsms) + 1] = new]
        <3> HIDE DEF fsm
        <3> QED
            BY <2>2
    <2>4. old \in Fsm /\ new \in Fsm
        BY <1>5, <2>2 DEF Tstate, Fsm
    <2>5. fsms' = Append(fsms, new)
        BY <1>5, <2>3, <2>4, ChangeLast
    <2> QED
        BY <2>1, <2>2, <2>5
<1>9. \E m \in Msg : m.type \in Events /\ m.fsmId = nextFsmId /\ Moved(m)
    <2>1. \E m \in Msg : m.type \in Events /\ m.fsmId = fsm.id /\ Moved(m)
        <3> HIDE DEF fsm
        <3> QED
            BY <1>5, <1>6, <1>7, PostMoves
    <2> QED
        BY <2>1
<1> QED
    BY <1>1, <1>3, <1>4, <1>7, <1>8, <1>9
-----------------------------------------------------------------------------
(* What the steps do to the messages.                                       *)

\* The front message leaves the pump.
LEMMA UsedMessage ==
    ASSUME TypeOK, Expected, pump # <<>>, NEW T
    PROVE  /\ Tail(pump) \in Seq(Msg) /\ Head(pump) \in Msg
           /\ Head(pump) = pump[1] /\ 1 \in 1..Len(pump)
           /\ Count(Tail(pump), T) =
                  IF Head(pump) \in T THEN Count(pump, T) - 1 ELSE Count(pump, T)
           /\ \A i \in 1..Len(Tail(pump)) :
                 IF Tail(pump)[i].type = "MSG_INIT" THEN Tail(pump)[i].fsmId = 0
                 ELSE Tail(pump)[i].type \in Events
<1>1. pump \in Seq(Msg) /\ Head(pump) = pump[1] /\ 1 \in 1..Len(pump) /\ Head(pump) \in Msg
    BY DEF TypeOK
<1>2. Tail(pump) \in Seq(Msg) /\ Without(Tail(pump), pump, 1)
    BY <1>1, TailWithout
<1>3. Count(Tail(pump), T) = IF Head(pump) \in T THEN Count(pump, T) - 1 ELSE Count(pump, T)
    <2>1. PICK all \in Seq(Msg), rest \in Seq(Msg) :
              all = pump /\ rest = Tail(pump) /\ Without(rest, all, 1) /\ 1 \in 1..Len(all)
        BY <1>1, <1>2
    <2>2. PICK i \in 1..Len(all) : i = 1
        BY <2>1
    <2>3. Without(rest, all, i)
        BY <2>1, <2>2
    <2>4. Count(rest, T) = IF all[i] \in T THEN Count(all, T) - 1 ELSE Count(all, T)
        BY <2>3, CountWithout
    <2> QED
        BY <1>1, <2>1, <2>2, <2>4
<1>4. \A i \in 1..Len(Tail(pump)) : i + 1 \in 1..Len(pump) /\ Tail(pump)[i] = pump[i + 1]
    BY <1>1
<1>5. \A i \in 1..Len(Tail(pump)) :
          IF Tail(pump)[i].type = "MSG_INIT" THEN Tail(pump)[i].fsmId = 0
          ELSE Tail(pump)[i].type \in Events
    BY <1>4 DEF Expected
<1> QED
    BY <1>1, <1>2, <1>3, <1>5

\* A dispatch that goes on replaces the front message by the next event.
LEMMA MovedMessage ==
    ASSUME TypeOK, Expected, pump # <<>>, NEW m \in Msg, m.type \in Events, Moved(m), NEW T
    PROVE  /\ pump' \in Seq(Msg) /\ sleeping' \in Seq(Msg) /\ Expected'
           /\ Count(pump', T) + Count(sleeping', T) =
                  Count(pump, T) + Count(sleeping, T)
                    - (IF Head(pump) \in T THEN 1 ELSE 0) + (IF m \in T THEN 1 ELSE 0)
           /\ m \notin T =>
                  Count(pump', T) = Count(pump, T) - (IF Head(pump) \in T THEN 1 ELSE 0)
<1>1. /\ Tail(pump) \in Seq(Msg) /\ pump \in Seq(Msg) /\ sleeping \in Seq(Msg)
      /\ Count(Tail(pump), T) = IF Head(pump) \in T THEN Count(pump, T) - 1 ELSE Count(pump, T)
      /\ \A i \in 1..Len(Tail(pump)) :
            IF Tail(pump)[i].type = "MSG_INIT" THEN Tail(pump)[i].fsmId = 0
            ELSE Tail(pump)[i].type \in Events
    BY UsedMessage DEF TypeOK
<1>2. Count(Tail(pump), T) \in Nat /\ Count(pump, T) \in Nat /\ Count(sleeping, T) \in Nat
    BY <1>1, CountType
<1>3. m.type # "MSG_INIT"
    BY RowsFollow
<1>4. CASE pump' = Append(Tail(pump), m) /\ sleeping' = sleeping
    <2>1. pump' \in Seq(Msg) /\ sleeping' \in Seq(Msg)
        BY <1>1, <1>4
    <2>2. Count(pump', T) = IF m \in T THEN Count(Tail(pump), T) + 1 ELSE Count(Tail(pump), T)
        <3>1. PICK rest \in Seq(Msg) : rest = Tail(pump)
            BY <1>1
        <3>2. Count(Append(rest, m), T) = IF m \in T THEN Count(rest, T) + 1 ELSE Count(rest, T)
            BY CountAppend
        <3> QED
            BY <1>4, <3>1, <3>2
    <2>3. Expected'
        <3>1. \A i \in 1..Len(pump') :
                  \/ i \in 1..Len(Tail(pump)) /\ pump'[i] = Tail(pump)[i]
                  \/ pump'[i] = m
            BY <1>1, <1>4
        <3> QED
            BY <1>1, <1>3, <1>4, <3>1 DEF Expected
    <2>4. Count(sleeping', T) = Count(sleeping, T)
        BY <1>4
    <2> QED
        BY <1>1, <1>2, <2>1, <2>2, <2>3, <2>4
<1>5. CASE pump' = Tail(pump) /\ sleeping' = Append(sleeping, m)
    <2>1. pump' \in Seq(Msg) /\ sleeping' \in Seq(Msg)
        BY <1>1, <1>5
    <2>2. Count(sleeping', T) = IF m \in T THEN Count(sleeping, T) + 1 ELSE Count(sleeping, T)
        BY <1>1, <1>5, CountAppend
    <2>3. Expected'
        <3>1. \A i \in 1..Len(sleeping') :
                  \/ i \in 1..Len(sleeping) /\ sleeping'[i] = sleeping[i]
                  \/ sleeping'[i] = m
            BY <1>1, <1>5
        <3> QED
            BY <1>1, <1>5, <3>1 DEF Expected
    <2>4. Count(pump', T) = Count(Tail(pump), T)
        BY <1>5
    <2> QED
        BY <1>1, <1>2, <2>1, <2>2, <2>3, <2>4
<1> QED
    BY <1>4, <1>5 DEF Moved
-----------------------------------------------------------------------------
(* The steps keep the invariant.                                            *)

\* An event that takes its FSM on leaves the FSMs as they are.
LEMMA StepContinues ==
    ASSUME IdsInv, pump # <<>>, UNCHANGED <<fsms, nextFsmId, posted, created, ended>>,
           NEW m \in Msg, m.type \in Events, m.fsmId = Head(pump).fsmId, Moved(m)
    PROVE  IdsInv'
<1>1. TypeOK /\ Expected /\ Head(pump) \in Msg
    BY UsedMessage DEF IdsInv
<1>2. pump' \in Seq(Msg) /\ sleeping' \in Seq(Msg) /\ Expected'
    BY <1>1, MovedMessage
<1>3. TypeOK'
    BY <1>1, <1>2 DEF TypeOK
<1>4. Balanced'
    <2> SUFFICES ASSUME NEW id \in Ids \ {0}
                 PROVE  Count(fsms', HasId(id)) =
                            Count(pump', ForId(id)) + Count(sleeping', ForId(id))
        BY DEF Balanced
    <2>1. Head(pump) \in ForId(id) <=> m \in ForId(id)
        BY <1>1 DEF ForId
    <2>2. Count(pump', ForId(id)) + Count(sleeping', ForId(id)) =
              Count(pump, ForId(id)) + Count(sleeping, ForId(id))
                - (IF Head(pump) \in ForId(id) THEN 1 ELSE 0)
                + (IF m \in ForId(id) THEN 1 ELSE 0)
        BY <1>1, MovedMessage
    <2>3. Count(pump, ForId(id)) \in Nat /\ Count(sleeping, ForId(id)) \in Nat
        BY CountType DEF IdsInv, TypeOK
    <2>4. Count(pump', ForId(id)) + Count(sleeping', ForId(id)) =
              Count(pump, ForId(id)) + Count(sleeping, ForId(id))
        BY <2>1, <2>2, <2>3
    <2> QED
        BY <2>4 DEF IdsInv, Balanced
<1>5. Bounded'
    <2>1. m \notin Inits
        BY RowsFollow DEF Inits
    <2>2. Count(pump', Inits) = Count(pump, Inits) - (IF Head(pump) \in Inits THEN 1 ELSE 0)
        BY <1>1, <2>1, MovedMessage
    <2>3. Count(pump, Inits) \in Nat
        BY CountType DEF IdsInv, TypeOK
    <2> QED
        BY <1>1, <2>2, <2>3 DEF IdsInv, Bounded, TypeOK
<1> QED
    BY <1>2, <1>3, <1>4, <1>5 DEF IdsInv, ObjsInv, KillsTheReported, Working

\* The event that ends an FSM takes it, and no other, out of the list.
LEMMA StepEnds ==
    ASSUME IdsInv, NEW i \in 1..Len(fsms), fsms[i].id = Head(pump).fsmId, Head(pump).fsmId # 0,
           pump # <<>>, pump' = Tail(pump), UNCHANGED sleeping,
           fsms' \in Seq(Fsm), Without(fsms', fsms, i),
           ended' = Append(ended, [reported |-> fsms[i].obj, erased |-> fsms[i].obj]),
           UNCHANGED <<nextFsmId, posted, created>>
    PROVE  IdsInv'
<1>1. TypeOK /\ Expected /\ Head(pump) \in Msg /\ fsms \in Seq(Fsm) /\ fsms[i] \in Fsm
    BY UsedMessage DEF IdsInv, TypeOK
<1>2. pump' \in Seq(Msg) /\ Expected'
    BY <1>1, UsedMessage DEF Expected
<1>3. TypeOK'
    <2>1. [reported |-> fsms[i].obj, erased |-> fsms[i].obj] \in [reported : Objs, erased : Objs]
        BY <1>1 DEF Fsm
    <2> QED
        BY <1>1, <1>2, <2>1 DEF TypeOK
<1>4. \A j \in 1..Len(fsms') :
          \E k \in 1..Len(fsms) : k # i /\ fsms'[j] = fsms[k] /\ k = IF j < i THEN j ELSE j + 1
    BY <1>1 DEF Without
<1>5. /\ ended \in Seq([reported : Objs, erased : Objs]) /\ Len(ended') = Len(ended) + 1
      /\ \A k \in 1..Len(ended) : ended'[k] = ended[k]
      /\ ended'[Len(ended) + 1].reported = fsms[i].obj
      /\ ended'[Len(ended) + 1].erased = fsms[i].obj
    BY <1>1 DEF TypeOK
<1>6. ObjsInv'
    <2>1. \A j \in 1..Len(fsms') : fsms'[j].obj >= 1 /\ fsms'[j].obj <= created'
        BY <1>4 DEF IdsInv, ObjsInv
    <2>2. \A j, k \in 1..Len(fsms') : fsms'[j].obj = fsms'[k].obj => j = k
        BY <1>4 DEF IdsInv, ObjsInv
    <2>3. \A k \in 1..Len(ended') : ended'[k].reported <= created'
        BY <1>5 DEF IdsInv, ObjsInv
    <2>4. \A j \in 1..Len(fsms'), k \in 1..Len(ended') : fsms'[j].obj # ended'[k].reported
        BY <1>4, <1>5 DEF IdsInv, ObjsInv
    <2> QED
        BY <2>1, <2>2, <2>3, <2>4 DEF ObjsInv
<1>7. KillsTheReported'
    <2>1. \A k \in 1..Len(ended) : fsms[i].obj # ended[k].reported
        BY DEF IdsInv, ObjsInv
    <2> QED
        BY <1>5, <2>1 DEF IdsInv, KillsTheReported
<1>8. Working'
    BY <1>4 DEF IdsInv, Working
<1>9. Balanced'
    <2> SUFFICES ASSUME NEW id \in Ids \ {0}
                 PROVE  Count(fsms', HasId(id)) =
                            Count(pump', ForId(id)) + Count(sleeping', ForId(id))
        BY DEF Balanced
    <2>1. Head(pump) \in ForId(id) <=> fsms[i] \in HasId(id)
        BY <1>1 DEF ForId, HasId
    <2>2. Count(fsms', HasId(id)) =
              IF fsms[i] \in HasId(id) THEN Count(fsms, HasId(id)) - 1 ELSE Count(fsms, HasId(id))
        BY <1>1, CountWithout
    <2>3. Count(Tail(pump), ForId(id)) =
              IF Head(pump) \in ForId(id) THEN Count(pump, ForId(id)) - 1 ELSE Count(pump, ForId(id))
        BY <1>1, UsedMessage
    <2>4. /\ Count(pump, ForId(id)) \in Nat /\ Count(sleeping, ForId(id)) \in Nat
          /\ Count(fsms, HasId(id)) = Count(pump, ForId(id)) + Count(sleeping, ForId(id))
        BY CountType DEF IdsInv, TypeOK, Balanced
    <2>5. Count(fsms', HasId(id)) = Count(Tail(pump), ForId(id)) + Count(sleeping, ForId(id))
        BY <2>1, <2>2, <2>3, <2>4
    <2> QED
        BY <2>5
<1>10. Bounded'
    <2>1. Count(Tail(pump), Inits) <= Count(pump, Inits) /\ Count(Tail(pump), Inits) \in Nat
        <3>1. Count(pump, Inits) \in Nat
            BY <1>1, CountType DEF TypeOK
        <3>2. Count(Tail(pump), Inits) \in Nat
            BY <1>1, UsedMessage, CountType
        <3>3. Count(Tail(pump), Inits) =
                  IF Head(pump) \in Inits THEN Count(pump, Inits) - 1 ELSE Count(pump, Inits)
            BY <1>1, UsedMessage
        <3> QED
            BY <3>1, <3>2, <3>3
    <2>2. Count(pump, Inits) \in Nat
        BY <1>1, CountType DEF TypeOK
    <2>3. created + Count(Tail(pump), Inits) <= posted
        BY <1>1, <2>1, <2>2 DEF IdsInv, Bounded, TypeOK
    <2> QED
        BY <2>3 DEF Bounded
<1> QED
    BY <1>2, <1>3, <1>6, <1>7, <1>8, <1>9, <1>10 DEF IdsInv

\* A new FSM has one event under way from the start.
LEMMA StepNew ==
    ASSUME IdsInv, ToNew
    PROVE  IdsInv'
<1> DEFINE fsm == [obj |-> created + 1, id |-> nextFsmId, state |-> "WORKING"]
<1>1. /\ pump # <<>> /\ Head(pump).type = "MSG_INIT" /\ Head(pump).fsmId = 0
      /\ created' = created + 1 /\ nextFsmId' = NextId /\ UNCHANGED <<posted, ended>>
      /\ fsms' = Append(fsms, fsm) /\ created + 1 \in Objs
    BY NewEffect
<1>2. PICK m \in Msg : m.type \in Events /\ m.fsmId = nextFsmId /\ Moved(m)
    BY NewEffect
<1>3. TypeOK /\ Expected /\ Head(pump) \in Msg /\ fsms \in Seq(Fsm) /\ created \in Nat
    BY <1>1, UsedMessage DEF IdsInv, TypeOK
<1>4. pump' \in Seq(Msg) /\ sleeping' \in Seq(Msg) /\ Expected'
    BY <1>1, <1>2, <1>3, MovedMessage
<1>5. fsm \in Fsm /\ fsm.obj = created + 1 /\ fsm.id = nextFsmId /\ fsm.state = "WORKING"
    BY <1>1, <1>3 DEF Fsm, Tstate, TypeOK
<1> HIDE DEF fsm
<1>6. TypeOK'
    <2>1. NextId \in Ids
        BY <1>3, IdAssumption DEF NextId, Ids, TypeOK
    <2> QED
        BY <1>1, <1>3, <1>4, <1>5, <2>1 DEF TypeOK, Objs
<1>7. \A j \in 1..Len(fsms') :
          \/ j \in 1..Len(fsms) /\ fsms'[j] = fsms[j]
          \/ j = Len(fsms) + 1 /\ fsms'[j] = fsm
    BY <1>1, <1>3, <1>5
<1>8. ObjsInv'
    <2>1. \A j \in 1..Len(fsms) : fsms[j].obj \in Nat /\ fsms[j].obj >= 1 /\ fsms[j].obj <= created
        <3>1. Objs \subseteq Nat
            BY IdAssumption DEF Objs
        <3>2. \A j \in 1..Len(fsms) : fsms[j] \in Fsm
            BY <1>3
        <3>3. \A j \in 1..Len(fsms) : fsms[j].obj \in Objs
            BY <3>2 DEF Fsm
        <3> QED
            BY <3>1, <3>3 DEF IdsInv, ObjsInv
    <2>2. \A k \in 1..Len(ended) : ended[k].reported \in Nat /\ ended[k].reported <= created
        <3>1. Objs \subseteq Nat
            BY IdAssumption DEF Objs
        <3> DEFINE End == [reported : Objs, erased : Objs]
        <3>2. ended \in Seq(End) /\ \A e \in End : e.reported \in Objs
            BY <1>3 DEF TypeOK
        <3> HIDE DEF End
        <3>3. \A k \in 1..Len(ended) : ended[k] \in End
            BY <3>2
        <3> QED
            BY <3>1, <3>2, <3>3 DEF IdsInv, ObjsInv
    <2>3. \A j \in 1..Len(fsms') : fsms'[j].obj >= 1 /\ fsms'[j].obj <= created'
        BY <1>1, <1>3, <1>5, <1>7, <2>1
    <2>4. \A j, k \in 1..Len(fsms') : fsms'[j].obj = fsms'[k].obj => j = k
        BY <1>3, <1>5, <1>7, <2>1 DEF IdsInv, ObjsInv
    <2>5. \A k \in 1..Len(ended') : ended'[k].reported <= created'
        BY <1>1, <1>3, <2>2
    <2>6. \A j \in 1..Len(fsms'), k \in 1..Len(ended') : fsms'[j].obj # ended'[k].reported
        BY <1>1, <1>3, <1>5, <1>7, <2>2 DEF IdsInv, ObjsInv
    <2> QED
        BY <2>3, <2>4, <2>5, <2>6 DEF ObjsInv
<1>9. Working'
    BY <1>5, <1>7 DEF IdsInv, Working
<1>10. Balanced'
    <2> SUFFICES ASSUME NEW id \in Ids \ {0}
                 PROVE  Count(fsms', HasId(id)) =
                            Count(pump', ForId(id)) + Count(sleeping', ForId(id))
        BY DEF Balanced
    <2>1. (m \in ForId(id) <=> fsm \in HasId(id)) /\ Head(pump) \notin ForId(id)
        BY <1>1, <1>2, <1>5 DEF ForId, HasId
    <2>2. Count(pump', ForId(id)) + Count(sleeping', ForId(id)) =
              Count(pump, ForId(id)) + Count(sleeping, ForId(id))
                - (IF Head(pump) \in ForId(id) THEN 1 ELSE 0)
                + (IF m \in ForId(id) THEN 1 ELSE 0)
        BY <1>1, <1>2, <1>3, MovedMessage
    <2>3. Count(Append(fsms, fsm), HasId(id)) =
              IF fsm \in HasId(id) THEN Count(fsms, HasId(id)) + 1 ELSE Count(fsms, HasId(id))
        BY <1>3, <1>5, CountAppend
    <2>4. /\ Count(pump, ForId(id)) \in Nat /\ Count(sleeping, ForId(id)) \in Nat
          /\ Count(fsms, HasId(id)) = Count(pump, ForId(id)) + Count(sleeping, ForId(id))
        BY CountType DEF IdsInv, TypeOK, Balanced
    <2> QED
        BY <1>1, <2>1, <2>2, <2>3, <2>4
<1>11. Bounded'
    <2>1. m \notin Inits /\ Head(pump) \in Inits
        BY <1>1, <1>2, <1>3, RowsFollow DEF Inits
    <2>2. Count(pump', Inits) = Count(pump, Inits) - (IF Head(pump) \in Inits THEN 1 ELSE 0)
        BY <1>1, <1>2, <1>3, <2>1, MovedMessage
    <2>3. Count(pump, Inits) \in Nat
        BY <1>3, CountType DEF TypeOK
    <2> QED
        BY <1>1, <1>3, <2>1, <2>2, <2>3 DEF IdsInv, Bounded, TypeOK
<1>12. KillsTheReported'
    BY <1>1 DEF IdsInv, KillsTheReported
<1> QED
    BY <1>4, <1>6, <1>8, <1>9, <1>10, <1>11, <1>12 DEF IdsInv

\* A message that is dropped has the id 0: no FSM waits for it.
LEMMA DropUnaddressed ==
    ASSUME IdsInv, Drop
    PROVE  pump # <<>> /\ Head(pump).fsmId = 0
<1> DEFINE id == Head(pump).fsmId
<1>1. pump # <<>> /\ FindFsm(id) = 0
    BY DEF Drop
<1>2. Head(pump) = pump[1] /\ 1 \in 1..Len(pump) /\ Head(pump) \in Msg /\ fsms \in Seq(Fsm)
    BY <1>1, UsedMessage DEF IdsInv, TypeOK
<1>3. SUFFICES ASSUME id # 0 PROVE FALSE
    BY <1>1
<1>4. id \in Ids \ {0}
    BY <1>2, <1>3 DEF Msg
<1> HIDE DEF id
<1>5. WithId(fsms, id) = {}
    <2>1. SUFFICES ASSUME WithId(fsms, id) # {} PROVE FALSE
        OBVIOUS
    <2>2. First(WithId(fsms, id)) \in WithId(fsms, id)
        <3>1. WithId(fsms, id) \subseteq Nat
            BY DEF WithId
        <3> QED
            BY <2>1, <3>1, FirstFound
    <2> QED
        BY <1>1, <1>2, <1>3, <2>1, <2>2 DEF FindFsm, WithId
<1>6. Places(fsms, HasId(id)) = {}
    BY <1>5 DEF Places, HasId, WithId
<1>7. Count(fsms, HasId(id)) = 0
    BY <1>6, FS_EmptySet DEF Count
<1>8. 1 \in Places(pump, ForId(id))
    BY <1>2 DEF Places, ForId, id
<1>9. Count(pump, ForId(id)) # 0
    <2>1. IsFiniteSet(Places(pump, ForId(id)))
        BY CountType DEF IdsInv, TypeOK
    <2> QED
        BY <1>8, <2>1, FS_EmptySet DEF Count
<1>10. Count(pump, ForId(id)) \in Nat /\ Count(sleeping, ForId(id)) \in Nat
    BY CountType DEF IdsInv, TypeOK
<1> QED
    BY <1>4, <1>7, <1>9, <1>10 DEF IdsInv, Balanced

\* A message is dropped.
LEMMA StepDrop ==
    ASSUME IdsInv, Drop
    PROVE  IdsInv'
<1>1. pump # <<>> /\ Head(pump).fsmId = 0
    BY DropUnaddressed
<1>2. pump' = Tail(pump) /\ UNCHANGED <<fsms, nextFsmId, sleeping, posted, created, ended>>
    BY DEF Drop
<1>3. TypeOK /\ Expected
    BY DEF IdsInv
<1>4. TypeOK'
    BY <1>1, <1>2, <1>3, UsedMessage DEF TypeOK
<1>5. Expected'
    BY <1>1, <1>2, <1>3, UsedMessage DEF Expected
<1>6. Balanced'
    <2> SUFFICES ASSUME NEW id \in Ids \ {0}
                 PROVE  Count(fsms', HasId(id)) =
                            Count(pump', ForId(id)) + Count(sleeping', ForId(id))
        BY DEF Balanced
    <2>1. Head(pump) \notin ForId(id)
        BY <1>1 DEF ForId
    <2>2. Count(Tail(pump), ForId(id)) = Count(pump, ForId(id))
        BY <1>1, <1>3, <2>1, UsedMessage
    <2> QED
        BY <1>2, <2>2 DEF IdsInv, Balanced
<1>7. Bounded'
    <2>1. Count(Tail(pump), Inits) =
              IF Head(pump) \in Inits THEN Count(pump, Inits) - 1 ELSE Count(pump, Inits)
        BY <1>1, <1>3, UsedMessage
    <2>2. Count(pump, Inits) \in Nat
        BY <1>3, CountType DEF TypeOK
    <2>3. created + Count(Tail(pump), Inits) <= posted
        BY <1>3, <2>1, <2>2 DEF IdsInv, Bounded, TypeOK
    <2> QED
        BY <1>2, <2>3 DEF Bounded
<1> QED
    BY <1>2, <1>4, <1>5, <1>6, <1>7 DEF IdsInv, ObjsInv, KillsTheReported, Working

\* A client opens a flow.
LEMMA StepOpen ==
    ASSUME IdsInv, Open
    PROVE  IdsInv'
<1> DEFINE m == [type |-> "MSG_INIT", fsmId |-> 0]
<1>1. /\ posted < MaxFlows /\ posted' = posted + 1 /\ pump' = Append(pump, m)
      /\ UNCHANGED <<fsms, nextFsmId, sleeping, created, ended>>
    BY DEF Open
<1>2. m \in Msg /\ m.type = "MSG_INIT" /\ m.fsmId = 0
    BY IdAssumption DEF Msg, MsgType, Ids
<1> HIDE DEF m
<1>3. TypeOK /\ Expected /\ pump \in Seq(Msg)
    BY DEF IdsInv, TypeOK
<1>4. TypeOK'
    BY <1>1, <1>2, <1>3, IdAssumption DEF TypeOK
<1>5. Expected'
    <2>1. \A i \in 1..Len(pump') : (i \in 1..Len(pump) /\ pump'[i] = pump[i]) \/ pump'[i] = m
        BY <1>1, <1>2, <1>3
    <2> QED
        BY <1>1, <1>2, <1>3, <2>1 DEF Expected
<1>6. Balanced'
    <2> SUFFICES ASSUME NEW id \in Ids \ {0}
                 PROVE  Count(fsms', HasId(id)) =
                            Count(pump', ForId(id)) + Count(sleeping', ForId(id))
        BY DEF Balanced
    <2>1. m \notin ForId(id)
        BY <1>2 DEF ForId
    <2>2. Count(Append(pump, m), ForId(id)) = Count(pump, ForId(id))
        BY <1>2, <1>3, <2>1, CountAppend
    <2> QED
        BY <1>1, <2>2 DEF IdsInv, Balanced
<1>7. Bounded'
    <2>1. m \in Inits
        BY <1>2 DEF Inits
    <2>2. Count(Append(pump, m), Inits) = Count(pump, Inits) + 1 /\ Count(pump, Inits) \in Nat
        BY <1>2, <1>3, <2>1, CountAppend, CountType
    <2> QED
        BY <1>1, <1>3, <2>2 DEF IdsInv, Bounded, TypeOK
<1> QED
    BY <1>1, <1>4, <1>5, <1>6, <1>7 DEF IdsInv, ObjsInv, KillsTheReported, Working

\* A timer puts its message into the pump.
LEMMA StepFires ==
    ASSUME IdsInv, NEW i \in 1..Len(sleeping), TimerFires(i)
    PROVE  IdsInv'
<1> DEFINE m == sleeping[i]
<1>1. /\ pump' = Append(pump, m) /\ sleeping' = RemoveAt(sleeping, i)
      /\ UNCHANGED <<fsms, nextFsmId, posted, created, ended>>
    BY DEF TimerFires
<1>2. TypeOK /\ Expected /\ pump \in Seq(Msg) /\ sleeping \in Seq(Msg)
    BY DEF IdsInv, TypeOK
<1>3. m \in Msg /\ m = sleeping[i] /\ m.type \in Events /\ m.type # "MSG_INIT"
    BY <1>2, RowsFollow DEF Expected
<1> HIDE DEF m
<1>4. RemoveAt(sleeping, i) \in Seq(Msg) /\ Without(RemoveAt(sleeping, i), sleeping, i)
    BY <1>2, RemoveAtWithout
<1>5. TypeOK'
    BY <1>1, <1>2, <1>3, <1>4 DEF TypeOK
<1>6. Expected'
    <2>1. \A j \in 1..Len(pump') : (j \in 1..Len(pump) /\ pump'[j] = pump[j]) \/ pump'[j] = m
        BY <1>1, <1>2, <1>3
    <2>2. \A j \in 1..Len(sleeping') : \E k \in 1..Len(sleeping) : sleeping'[j] = sleeping[k]
        BY <1>1, <1>2, <1>4 DEF Without
    <2> QED
        BY <1>1, <1>2, <1>3, <2>1, <2>2 DEF Expected
<1>7. Balanced'
    <2> SUFFICES ASSUME NEW id \in Ids \ {0}
                 PROVE  Count(fsms', HasId(id)) =
                            Count(pump', ForId(id)) + Count(sleeping', ForId(id))
        BY DEF Balanced
    <2>1. Count(Append(pump, m), ForId(id)) =
              IF m \in ForId(id) THEN Count(pump, ForId(id)) + 1 ELSE Count(pump, ForId(id))
        BY <1>2, <1>3, CountAppend
    <2>2. Count(RemoveAt(sleeping, i), ForId(id)) =
              IF m \in ForId(id) THEN Count(sleeping, ForId(id)) - 1 ELSE Count(sleeping, ForId(id))
        BY <1>2, <1>3, <1>4, CountWithout
    <2>3. Count(pump, ForId(id)) \in Nat /\ Count(sleeping, ForId(id)) \in Nat
        BY <1>2, CountType
    <2>4. Count(fsms, HasId(id)) = Count(pump, ForId(id)) + Count(sleeping, ForId(id))
        BY DEF IdsInv, Balanced
    <2> QED
        BY <1>1, <2>1, <2>2, <2>3, <2>4
<1>8. Bounded'
    <2>1. m \notin Inits
        BY <1>3 DEF Inits
    <2>2. Count(Append(pump, m), Inits) = Count(pump, Inits)
        BY <1>2, <1>3, <2>1, CountAppend
    <2> QED
        BY <1>1, <2>2 DEF IdsInv, Bounded
<1> QED
    BY <1>1, <1>5, <1>6, <1>7, <1>8 DEF IdsInv, ObjsInv, KillsTheReported, Working

\* There is no FSM and no message at first.
LEMMA InitIds == Init => IdsInv
<1> SUFFICES ASSUME Init PROVE IdsInv
    OBVIOUS
<1>1. /\ fsms = <<>> /\ nextFsmId = 1 /\ pump = <<>> /\ sleeping = <<>>
      /\ posted = 0 /\ created = 0 /\ ended = <<>>
    BY DEF Init
<1>2. TypeOK
    BY <1>1, IdAssumption DEF TypeOK, Ids
<1>3. \A T : Places(<<>>, T) = {}
    BY DEF Places
<1>4. \A T : Count(<<>>, T) = 0
    BY <1>3, FS_EmptySet DEF Count
<1>5. Balanced /\ Bounded
    BY <1>1, <1>4 DEF Balanced, Bounded
<1> QED
    BY <1>1, <1>2, <1>5 DEF IdsInv, ObjsInv, KillsTheReported, Working, Expected

\* Every step keeps the invariant.
LEMMA StepIds == IdsInv /\ [Next]_vars => IdsInv'
<1> SUFFICES ASSUME IdsInv, [Next]_vars PROVE IdsInv'
    OBVIOUS
<1>1. CASE Open
    BY <1>1, StepOpen
<1>2. CASE ToKnown
    <2>1. /\ pump # <<>> /\ Head(pump).fsmId # 0 /\ UNCHANGED <<nextFsmId, posted, created>>
        BY <1>2, KnownEffect
    <2>2. PICK i \in 1..Len(fsms) :
              /\ fsms[i].id = Head(pump).fsmId
              /\ \/ /\ UNCHANGED <<fsms, ended>>
                    /\ \E m \in Msg : m.type \in Events /\ m.fsmId = fsms[i].id /\ Moved(m)
                 \/ /\ pump' = Tail(pump) /\ UNCHANGED sleeping
                    /\ fsms' \in Seq(Fsm) /\ Without(fsms', fsms, i)
                    /\ ended' = Append(ended, [reported |-> fsms[i].obj,
                                               erased |-> fsms[i].obj])
        BY <1>2, KnownEffect
    <2>3. CASE /\ UNCHANGED <<fsms, ended>>
               /\ \E m \in Msg : m.type \in Events /\ m.fsmId = fsms[i].id /\ Moved(m)
        BY <2>1, <2>2, <2>3, StepContinues
    <2>4. CASE /\ pump' = Tail(pump) /\ UNCHANGED sleeping
               /\ fsms' \in Seq(Fsm) /\ Without(fsms', fsms, i)
               /\ ended' = Append(ended, [reported |-> fsms[i].obj, erased |-> fsms[i].obj])
        BY <2>1, <2>2, <2>4, StepEnds
    <2> QED
        BY <2>2, <2>3, <2>4
<1>3. CASE ToNew
    BY <1>3, StepNew
<1>4. CASE Drop
    BY <1>4, StepDrop
<1>5. CASE \E i \in 1..Len(sleeping) : TimerFires(i)
    BY <1>5, StepFires
<1>6. CASE UNCHANGED vars
    BY <1>6 DEF vars, IdsInv, TypeOK, ObjsInv, KillsTheReported, Working, Expected, Balanced, Bounded
<1> QED
    BY <1>1, <1>2, <1>3, <1>4, <1>5, <1>6 DEF Next

\* Whatever number ids wrap at, and whatever FSMs share one, the FSM that
\* KillFsm destroys is the one DispatchToFsm reported, and none is reported twice.
THEOREM KillsTheReportedKept == Spec => []KillsTheReported
<1>1. IdsInv => KillsTheReported
    BY DEF IdsInv
<1> QED
    BY <1>1, InitIds, StepIds, PTL DEF Spec

\* Whatever number ids wrap at, as many messages are under way to an id, in the
\* pump and in timers, as there are FSMs that have it: none waits for an event
\* that never comes, and none of these messages is dropped.
THEOREM AsManyMessagesKept == Spec => []AsManyMessagesAsFsms
<1>1. ASSUME IdsInv PROVE AsManyMessagesAsFsms
    <2> SUFFICES ASSUME NEW id \in Ids \ {0}
                 PROVE  Cardinality(WithId(fsms, id)) =
                            Cardinality({i \in 1..Len(pump) : pump[i].fsmId = id})
                              + Cardinality({i \in 1..Len(sleeping) : sleeping[i].fsmId = id})
        BY DEF AsManyMessagesAsFsms
    <2>1. /\ \A i \in 1..Len(fsms) : fsms[i] \in Fsm
          /\ \A i \in 1..Len(pump) : pump[i] \in Msg
          /\ \A i \in 1..Len(sleeping) : sleeping[i] \in Msg
        BY <1>1 DEF IdsInv, TypeOK
    <2>2. Places(fsms, HasId(id)) = WithId(fsms, id)
        BY <2>1 DEF Places, HasId, WithId
    <2>3. Places(pump, ForId(id)) = {i \in 1..Len(pump) : pump[i].fsmId = id}
        BY <2>1 DEF Places, ForId
    <2>4. Places(sleeping, ForId(id)) = {i \in 1..Len(sleeping) : sleeping[i].fsmId = id}
        BY <2>1 DEF Places, ForId
    <2>5. Count(fsms, HasId(id)) = Count(pump, ForId(id)) + Count(sleeping, ForId(id))
        BY <1>1 DEF IdsInv, Balanced
    <2> QED
        BY <2>2, <2>3, <2>4, <2>5 DEF Count
<1> QED
    BY <1>1, InitIds, StepIds, PTL DEF Spec

=============================================================================
