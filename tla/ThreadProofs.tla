---------------------------- MODULE ThreadProofs ----------------------------
(***************************************************************************)
(* A thread, for any number of requests, retries and catch-ups.  The       *)
(* server's half: everyone with the same client_msg_id gets the same       *)
(* message, and a message is announced once.  The widget's half: no        *)
(* message is shown twice, and a catch-up gets all there is after its      *)
(* cursor.                                                                 *)
(***************************************************************************)
EXTENDS Thread, FiniteSetTheorems, SequenceTheorems, WellFoundedInduction, TLAPS

USE DEF NoId

-----------------------------------------------------------------------------
(* The inductive invariant. Every request draws at most one id, so ids     *)
(* never run out; an id belongs to one request until its transaction       *)
(* commits; a row is the only one with its id and the only one with its    *)
(* key; a request past its commit has its message in the table.            *)

ServerTypes ==
    /\ rows \subseteq [id : Ids, key : Keys \cup {FirstKey}]
    /\ hooks \in [Ids -> Nat]
    /\ lastId \in Nat
    /\ req \in [Sends -> Request]

Started == {s \in Sends : req[s].stage # "new"}
IdsSuffice == lastId <= 1 + Cardinality(Started)

IdIsMine ==
    \A s \in Sends : req[s].stage = "tx" =>
        /\ req[s].id \in 1..lastId
        /\ req[s].id \notin Committed
        /\ \A t \in Sends : req[t].stage = "tx" /\ req[t].id = req[s].id => s = t

RowsUnique ==
    \A a, b \in rows : a.id \in 1..lastId /\ (a.key = b.key \/ a.id = b.id => a = b)

StoredBeforeAnswer ==
    \A s \in Sends : req[s].stage \in {"emit", "answer", "done"}
                      => [id |-> req[s].id, key |-> Key[s]] \in rows

ServerInv ==
    ServerTypes /\ IdsSuffice /\ IdIsMine /\ RowsUnique /\ StoredBeforeAnswer /\ AnnouncedOnce

-----------------------------------------------------------------------------
LEMMA StartedFinite == ASSUME ServerTypes PROVE IsFiniteSet(Started) /\ Cardinality(Started) \in Nat
<1>1. Started \subseteq Sends
  BY DEF Started
<1> QED
  BY <1>1, ThreadConstants, FS_Subset, FS_CardinalityType

\* an id is left for a request that has not drawn one
LEMMA IdLeft ==
  ASSUME ServerInv, NEW s \in Sends, req[s].stage = "new"
  PROVE  lastId + 1 \in Ids
<1>1. IsFiniteSet(Started) /\ Cardinality(Started) \in Nat
  BY StartedFinite DEF ServerInv
<1>2. s \notin Started /\ Started \cup {s} \subseteq Sends
  BY DEF Started
<1>3. Cardinality(Started \cup {s}) = Cardinality(Started) + 1
  BY <1>1, <1>2, FS_AddElement
<1>4. Cardinality(Started \cup {s}) <= Cardinality(Sends) /\ Cardinality(Sends) \in Nat
  BY <1>2, ThreadConstants, FS_Subset, FS_CardinalityType
<1>5. lastId \in Nat /\ lastId <= 1 + Cardinality(Started)
  BY DEF ServerInv, ServerTypes, IdsSuffice
<1> QED
  BY <1>1, <1>3, <1>4, <1>5 DEF Ids, MaxId

\* a step that starts no request may not take an id
LEMMA StartedGrows ==
  ASSUME ServerTypes, ServerTypes', IdsSuffice, Started \subseteq Started', UNCHANGED lastId
  PROVE  IdsSuffice'
<1>1. IsFiniteSet(Started') /\ Cardinality(Started') \in Nat
  <2>1. Started' \subseteq Sends
    BY DEF Started
  <2> QED BY <2>1, ThreadConstants, FS_Subset, FS_CardinalityType
<1>2. Cardinality(Started) <= Cardinality(Started') /\ Cardinality(Started) \in Nat
  BY <1>1, StartedFinite, FS_Subset
<1> QED
  BY <1>1, <1>2 DEF IdsSuffice, ServerTypes

-----------------------------------------------------------------------------
LEMMA InitServer == Init => ServerInv
<1> SUFFICES ASSUME Init PROVE ServerInv
  OBVIOUS
<1>1. Cardinality(Sends) \in Nat
  BY ThreadConstants, FS_CardinalityType
<1>2. lastId \in {0, 1} /\ lastId \in Nat
  BY ThreadConstants DEF Init
<1>3. 1 \in Ids /\ Ids \subseteq Nat
  BY <1>1 DEF Ids, MaxId
<1>4. rows = IF lastId = 1 THEN {[id |-> 1, key |-> FirstKey]} ELSE {}
  <2>1. 1..0 = {} /\ 1..1 = {1}
    OBVIOUS
  <2> QED BY <1>2, <2>1 DEF Init
<1>5. ServerTypes
  <2>1. rows \subseteq [id : Ids, key : Keys \cup {FirstKey}]
    BY <1>3, <1>4
  <2>2. hooks \in [Ids -> Nat]
    BY DEF Init
  <2>3. req \in [Sends -> Request]
    BY DEF Init, Request
  <2> QED BY <1>2, <2>1, <2>2, <2>3 DEF ServerTypes
<1>6. IdsSuffice
  <2>1. IsFiniteSet(Started) /\ Cardinality(Started) \in Nat
    BY <1>5, StartedFinite
  <2> QED BY <1>2, <2>1 DEF IdsSuffice
<1>7. \A s \in Sends : req[s].stage = "new"
  BY DEF Init
<1>8. IdIsMine /\ StoredBeforeAnswer
  BY <1>7 DEF IdIsMine, StoredBeforeAnswer
<1>9. RowsUnique
  BY <1>2, <1>4 DEF RowsUnique
<1>10. AnnouncedOnce
  BY DEF Init, AnnouncedOnce
<1> QED
  BY <1>5, <1>6, <1>8, <1>9, <1>10 DEF ServerInv

-----------------------------------------------------------------------------
(* A request moves on with a message that is in the table, or with none:   *)
(* every step of a request but the draw of an id and the commit.           *)
LEMMA MovesOn ==
  ASSUME ServerInv, NEW s \in Sends, NEW stage \in {"refind", "answer", "done", "failed"},
         NEW id \in Ids \cup {NoId}, Goto(s, stage, id),
         UNCHANGED <<rows, hooks, nudges, lastId>>,
         stage \in {"answer", "done"} => [id |-> id, key |-> Key[s]] \in rows
  PROVE  ServerInv'
<1> USE DEF ServerInv
<1>1. ServerTypes'
  BY DEF ServerTypes, Goto, Request
<1>2. /\ req'[s] = [stage |-> stage, id |-> id]
      /\ \A t \in Sends \ {s} : req'[t] = req[t]
  BY DEF ServerTypes, Goto
<1>3. IdsSuffice'
  <2>1. Started \subseteq Started'
    BY <1>2 DEF Started
  <2> QED BY <1>1, <2>1, StartedGrows
<1>4. Committed' = Committed
  BY DEF Committed
<1>5. IdIsMine'
  BY <1>2, <1>4 DEF IdIsMine
<1>6. RowsUnique'
  BY DEF RowsUnique
<1>7. StoredBeforeAnswer'
  BY <1>2 DEF StoredBeforeAnswer
<1>8. AnnouncedOnce'
  BY <1>4 DEF AnnouncedOnce
<1> QED
  BY <1>1, <1>3, <1>5, <1>6, <1>7, <1>8

\* the draw of an id
LEMMA Draws ==
  ASSUME ServerInv, NEW s \in Sends, req[s].stage = "new",
         Goto(s, "tx", lastId + 1), lastId' = lastId + 1, UNCHANGED <<rows, hooks, nudges>>
  PROVE  ServerInv'
<1> USE DEF ServerInv
<1>1. lastId + 1 \in Ids /\ lastId \in Nat
  BY IdLeft DEF ServerTypes
<1>2. ServerTypes'
  BY <1>1 DEF ServerTypes, Goto, Request
<1>3. /\ req'[s] = [stage |-> "tx", id |-> lastId + 1]
      /\ \A t \in Sends \ {s} : req'[t] = req[t]
  BY DEF ServerTypes, Goto
<1>4. IdsSuffice'
  <2>1. IsFiniteSet(Started) /\ Cardinality(Started) \in Nat
    BY StartedFinite
  <2>2. Started' = Started \cup {s} /\ s \notin Started
    BY <1>3 DEF Started
  <2>3. Cardinality(Started') = Cardinality(Started) + 1
    BY <2>1, <2>2, FS_AddElement
  <2> QED BY <1>1, <2>1, <2>3 DEF IdsSuffice
<1>5. Committed' = Committed /\ Committed \subseteq 1..lastId
  BY DEF Committed, RowsUnique
<1>6. IdIsMine'
  <2>1. \A t \in Sends \ {s} : req[t].stage = "tx" => req[t].id \in 1..lastId
    BY DEF IdIsMine
  <2> QED BY <1>1, <1>3, <1>5, <2>1 DEF IdIsMine
<1>7. RowsUnique'
  BY <1>1 DEF RowsUnique
<1>8. StoredBeforeAnswer'
  BY <1>3 DEF StoredBeforeAnswer
<1>9. AnnouncedOnce'
  BY <1>5 DEF AnnouncedOnce
<1> QED
  BY <1>2, <1>4, <1>6, <1>7, <1>8, <1>9

\* the transaction that wins, whether or not the server hears of it
LEMMA Commits ==
  ASSUME ServerInv, NEW s \in Sends, req[s].stage = "tx", Original(s) = {}, Write(s),
         UNCHANGED lastId, Goto(s, "emit", req[s].id) \/ Goto(s, "refind", NoId)
  PROVE  ServerInv'
<1> USE DEF ServerInv
<1>1. req[s].id \in Ids /\ req[s].id \in 1..lastId /\ req[s].id \notin Committed
  <2>1. req[s].id \in 1..lastId /\ req[s].id \notin Committed
    BY DEF IdIsMine
  <2>2. req[s].id \in Ids \cup {0} /\ lastId \in Nat
    BY DEF ServerTypes, Request
  <2> QED BY <2>1, <2>2
<1>2. Key[s] \in Keys
  BY DEF Keys
<1>3. rows' = rows \cup {[id |-> req[s].id, key |-> Key[s]]}
  BY DEF Write
<1>4. Committed' = Committed \cup {req[s].id}
  <2> DEFINE new == [id |-> req[s].id, key |-> Key[s]]
  <2>1. rows' = rows \cup {new} /\ new.id = req[s].id
    BY <1>3
  <2> HIDE DEF new
  <2> QED BY <2>1 DEF Committed
<1>5. \E g \in {"emit", "refind"}, i \in {req[s].id, NoId} :
        /\ Goto(s, g, i)
        /\ g = "emit" => i = req[s].id
  OBVIOUS
<1>6. PICK g \in {"emit", "refind"}, i \in {req[s].id, NoId} :
        /\ Goto(s, g, i)
        /\ g = "emit" => i = req[s].id
  BY <1>5
<1>7. /\ req'[s] = [stage |-> g, id |-> i]
      /\ \A t \in Sends \ {s} : req'[t] = req[t]
  BY <1>6 DEF ServerTypes, Goto
<1>8. ServerTypes'
  <2>1. rows' \subseteq [id : Ids, key : Keys \cup {FirstKey}]
    BY <1>1, <1>2, <1>3 DEF ServerTypes
  <2>2. hooks' \in [Ids -> Nat]
    BY <1>1 DEF ServerTypes, Write
  <2>3. req' \in [Sends -> Request]
    BY <1>1, <1>6 DEF ServerTypes, Goto, Request
  <2> QED BY <2>1, <2>2, <2>3 DEF ServerTypes
<1>9. IdsSuffice'
  <2>1. Started \subseteq Started'
    BY <1>7 DEF Started
  <2> QED BY <1>8, <2>1, StartedGrows
<1>10. IdIsMine'
  BY <1>4, <1>7 DEF IdIsMine
<1>11. RowsUnique'
  <2>1. \A a \in rows : a.key # Key[s]
    BY DEF Original
  <2>2. \A a \in rows : a.id # req[s].id
    BY <1>1 DEF Committed
  <2> QED BY <1>1, <1>3, <2>1, <2>2 DEF RowsUnique
<1>12. StoredBeforeAnswer'
  <2>1. rows \subseteq rows'
    BY <1>3
  <2>2. req'[s].stage = "emit" => [id |-> req'[s].id, key |-> Key[s]] \in rows'
    BY <1>3, <1>6, <1>7
  <2>3. \A t \in Sends \ {s} : req'[t].stage \in {"emit", "answer", "done"}
                               => [id |-> req'[t].id, key |-> Key[t]] \in rows'
    BY <1>7, <2>1 DEF StoredBeforeAnswer
  <2> QED BY <1>7, <2>2, <2>3 DEF StoredBeforeAnswer
<1>13. AnnouncedOnce'
  <2>1. nudges' = Committed'
    BY <1>4 DEF Write, AnnouncedOnce
  <2>2. hooks[req[s].id] = 0
    BY <1>1 DEF AnnouncedOnce
  <2>3. \A j \in Ids : hooks'[j] = IF j \in Committed' THEN 1 ELSE 0
    BY <1>1, <1>4, <2>2 DEF Write, AnnouncedOnce, ServerTypes
  <2> QED BY <2>1, <2>3 DEF AnnouncedOnce
<1> QED
  BY <1>8, <1>9, <1>10, <1>11, <1>12, <1>13

-----------------------------------------------------------------------------
LEMMA NextServer == ServerInv /\ [Next]_vars => ServerInv'
<1> SUFFICES ASSUME ServerInv, [Next]_vars PROVE ServerInv'
  OBVIOUS
<1>0. /\ \A s \in Sends : req[s] \in Request
      /\ \A s \in Sends : req[s].id \in Ids \cup {NoId}
  BY DEF ServerInv, ServerTypes, Request
<1>1. CASE UNCHANGED serverVars
  BY <1>1 DEF ServerInv, ServerTypes, IdsSuffice, Started, IdIsMine, RowsUnique, StoredBeforeAnswer,
     AnnouncedOnce, Committed, serverVars
<1>2. ASSUME NEW s \in Sends, NEW i \in Original(s)
      PROVE  i \in Ids \cup {NoId} /\ [id |-> i, key |-> Key[s]] \in rows
  <2>1. PICK r \in rows : r.key = Key[s] /\ r.id = i
    BY <1>2 DEF Original
  <2>2. r \in [id : Ids, key : Keys \cup {FirstKey}]
    BY DEF ServerInv, ServerTypes
  <2>3. r = [id |-> i, key |-> Key[s]]
    BY <2>1, <2>2
  <2> QED BY <2>1, <2>2, <2>3
<1>3. ASSUME NEW s \in Sends, Find(s) PROVE ServerInv'
  <2>1. CASE \E i \in Original(s) : Goto(s, "answer", i) /\ UNCHANGED lastId
    BY <1>2, <1>3, <2>1, MovesOn DEF Find
  <2>2. CASE Goto(s, "tx", lastId + 1) /\ lastId' = lastId + 1
    BY <1>3, <2>2, Draws DEF Find
  <2> QED BY <1>3, <2>1, <2>2 DEF Find
<1>4. ASSUME NEW s \in Sends, Commit(s) PROVE ServerInv'
  <2>1. CASE Original(s) = {} /\ Write(s) /\ (Goto(s, "emit", req[s].id) \/ Goto(s, "refind", NoId))
    BY <1>4, <2>1, Commits DEF Commit
  <2>2. CASE Goto(s, "refind", NoId) /\ UNCHANGED <<rows, hooks, nudges>>
    BY <1>4, <2>2, MovesOn DEF Commit
  <2> QED BY <1>4, <2>1, <2>2 DEF Commit
<1>5. ASSUME NEW s \in Sends, Refind(s) PROVE ServerInv'
  <2>1. CASE \E i \in Original(s) : Goto(s, "answer", i)
    BY <1>2, <1>5, <2>1, MovesOn DEF Refind
  <2>2. CASE Goto(s, "failed", NoId)
    BY <1>5, <2>2, MovesOn DEF Refind
  <2> QED BY <1>5, <2>1, <2>2 DEF Refind
<1>6. ASSUME NEW s \in Sends, req[s].stage \in {"emit", "answer"}
      PROVE  [id |-> req[s].id, key |-> Key[s]] \in rows
  BY <1>6 DEF ServerInv, StoredBeforeAnswer
<1>7. ASSUME NEW s \in Sends, Emit(s) PROVE ServerInv'
  BY <1>0, <1>6, <1>7, MovesOn DEF Emit
<1>8. ASSUME NEW s \in Sends, AnswerElsewhere(s) \/ Answered(s) PROVE ServerInv'
  BY <1>0, <1>6, <1>8, MovesOn DEF AnswerElsewhere, Answered
<1>9. ASSUME NEW s \in Sends, Die(s) PROVE ServerInv'
  BY <1>9, MovesOn DEF Die
<1>10. ASSUME NEW i \in Ids, OnEvent(i) PROVE UNCHANGED serverVars
  BY <1>10 DEF OnEvent
<1>11. Disconnect => UNCHANGED serverVars
  BY DEF Disconnect
<1>12. ASSUME NEW c \in CatchUps, Reconnect(c) \/ SyncStep(c) PROVE UNCHANGED serverVars
  BY <1>12 DEF Reconnect, SyncStep, ReadSince, Fetch, Apply, FetchFails
<1> QED
  BY <1>1, <1>3, <1>4, <1>5, <1>7, <1>8, <1>9, <1>10, <1>11, <1>12 DEF Next, SendStep, vars

LEMMA ServerInvHolds == Spec => []ServerInv
  BY InitServer, NextServer, PTL DEF Spec

(* Whatever the interleaving of retries, lost answers and crashes, the     *)
(* requests with one client_msg_id that get an answer get one message      *)
(* (SendMessage, message.go).                                              *)
THEOREM AnswersAgreeHolds == Spec => []AnswersAgree
<1>1. ServerInv => AnswersAgree
  BY DEF ServerInv, AnswersAgree, StoredBeforeAnswer, RowsUnique
<1> QED
  BY <1>1, ServerInvHolds, PTL

(* A message has one webhook event and one nudge, and nothing else has any *)
(* (insertMessage's transaction, message.go).                              *)
THEOREM AnnouncedOnceHolds == Spec => []AnnouncedOnce
<1>1. ServerInv => AnnouncedOnce
  BY DEF ServerInv
<1> QED
  BY <1>1, ServerInvHolds, PTL

-----------------------------------------------------------------------------
(* The operators the widget's half is built from.  Sets of ids are finite, *)
(* have a latest member and can be put in order.                           *)

LEMMA IdsFinite ==
  /\ MaxId \in Nat /\ Ids \subseteq Nat /\ Ids \in SUBSET Nat /\ \A i \in Ids : i <= MaxId
  /\ \A S \in SUBSET Ids : IsFiniteSet(S) /\ Cardinality(S) \in Nat
<1>1. Cardinality(Sends) \in Nat
  BY ThreadConstants, FS_CardinalityType
<1>2. MaxId \in Nat
  BY <1>1 DEF MaxId
<1>3. IsFiniteSet(Ids)
  BY <1>2, FS_Interval DEF Ids
<1>4. \A S \in SUBSET Ids : IsFiniteSet(S) /\ Cardinality(S) \in Nat
  BY <1>3, FS_Subset, FS_CardinalityType
<1> QED
  BY <1>2, <1>4 DEF Ids

LEMMA LatestOf ==
  ASSUME NEW S \in SUBSET Ids, S # {}
  PROVE  Max(S) \in S /\ \A j \in S : j <= Max(S)
<1> DEFINE D == {MaxId - i : i \in S}
<1>0. S \subseteq Nat /\ MaxId \in Nat /\ \A i \in S : i \in Nat /\ i <= MaxId
  BY IdsFinite
<1>1. D \in SUBSET Nat /\ D # {}
  <2>1. \A i \in S : MaxId - i \in Nat
    BY <1>0
  <2> QED BY <2>1
<1>2. PICK k \in D : \A l \in D : <<l, k>> \notin OpToRel(<, Nat)
  <2> HIDE DEF D
  <2> QED BY <1>1, NatLessThanWellFounded, WFMin
<1>3. \A l \in D : ~(l < k)
  BY <1>1, <1>2 DEF OpToRel
<1>4. PICK i \in S : k = MaxId - i
  OBVIOUS
<1>5. ASSUME NEW j \in S PROVE i >= j
  <2>1. ~(MaxId - j < MaxId - i)
    BY <1>3, <1>4
  <2> QED BY <1>0, <2>1
<1>6. \E m \in S : \A y \in S : m >= y
  BY <1>5
<1>7. PICK m : m = CHOOSE x \in S : \A y \in S : x >= y
  OBVIOUS
<1>8. m \in S /\ \A y \in S : m >= y
  BY <1>6, <1>7, Zenon
<1>9. m = Max(S)
  BY <1>7, Zenon DEF Max
<1> QED
  BY <1>0, <1>8, <1>9

\* what InOrder asks for
Sorted(f, S) ==
    /\ f \in [1..Cardinality(S) -> S]
    /\ ToSet(f) = S
    /\ \A i, j \in DOMAIN f : i < j => f[i] < f[j]

\* a set without its latest member in order, and then that member
LEMMA SortedMore ==
  ASSUME NEW S \in SUBSET Ids, S # {}, NEW g, Sorted(g, S \ {Max(S)})
  PROVE  \E f : Sorted(f, S)
<1>1. PICK m : m = Max(S)
  OBVIOUS
<1>2. m \in S /\ \A j \in S : j <= m
  BY <1>1, LatestOf
<1>3. PICK n : n = Cardinality(S)
  OBVIOUS
<1>4. PICK T : T = S \ {m}
  OBVIOUS
<1>5. n \in Nat \ {0} /\ Cardinality(T) = n - 1
  <2>1. IsFiniteSet(S) /\ Cardinality(S) \in Nat /\ IsFiniteSet(T) /\ Cardinality(T) \in Nat
    BY <1>4, IdsFinite
  <2>2. Cardinality(T) = Cardinality(S) - 1
    BY <1>2, <1>4, <2>1, FS_RemoveElement
  <2> QED BY <1>3, <2>1, <2>2
<1>6. g \in [1..(n - 1) -> T] /\ ToSet(g) = T /\ \A i, j \in 1..(n - 1) : i < j => g[i] < g[j]
  <2>1. Sorted(g, T)
    BY <1>1, <1>4
  <2>2. g \in [1..(n - 1) -> T]
    BY <1>5, <2>1 DEF Sorted
  <2> QED BY <2>1, <2>2 DEF Sorted
<1>7. PICK f : f = [i \in 1..n |-> IF i = n THEN m ELSE g[i]]
  OBVIOUS
<1>8. \A i \in 1..n : i = n \/ i \in 1..(n - 1)
  BY <1>5
<1>9. f \in [1..n -> S]
  BY <1>2, <1>4, <1>6, <1>7, <1>8
<1>10. ToSet(f) = S
  <2>1. ASSUME NEW x \in S PROVE \E i \in 1..n : f[i] = x
    <3>1. CASE x = m
      BY <1>5, <1>7, <3>1
    <3>2. CASE x # m
      <4>1. PICK i \in 1..(n - 1) : g[i] = x
        BY <1>4, <1>6, <3>2 DEF ToSet
      <4>2. i \in 1..n /\ i # n
        BY <1>5
      <4> QED BY <1>7, <4>1, <4>2
    <3> QED BY <3>1, <3>2
  <2> QED BY <1>9, <2>1 DEF ToSet
<1>11. \A i, j \in 1..n : i < j => f[i] < f[j]
  <2> SUFFICES ASSUME NEW i \in 1..n, NEW j \in 1..n, i < j PROVE f[i] < f[j]
    OBVIOUS
  <2>1. i \in 1..(n - 1) /\ f[i] = g[i] /\ g[i] \in T
    BY <1>5, <1>6, <1>7
  <2>2. CASE j = n
    <3>1. g[i] \in Nat /\ m \in Nat /\ g[i] # m /\ g[i] <= m
      BY <1>2, <1>4, <2>1, IdsFinite
    <3> QED BY <1>7, <2>1, <2>2, <3>1
  <2>3. CASE j # n
    BY <1>5, <1>6, <1>7, <2>1, <2>3
  <2> QED BY <2>2, <2>3
<1> QED
  BY <1>3, <1>9, <1>10, <1>11 DEF Sorted

LEMMA InOrderSorted == ASSUME NEW S \in SUBSET Ids PROVE Sorted(InOrder(S), S)
<1> DEFINE Bad == {n \in Nat : \E R \in SUBSET Ids : Cardinality(R) = n /\ ~\E f : Sorted(f, R)}
<1>1. Bad = {}
  <2> SUFFICES ASSUME Bad # {} PROVE FALSE
    OBVIOUS
  <2>1. Bad \in SUBSET Nat
    OBVIOUS
  <2>2. PICK n \in Bad : \A k \in Bad : <<k, n>> \notin OpToRel(<, Nat)
    <3> HIDE DEF Bad
    <3> QED BY <2>1, NatLessThanWellFounded, WFMin
  <2>3. \A k \in Bad : ~(k < n)
    BY <2>1, <2>2 DEF OpToRel
  <2>4. PICK R \in SUBSET Ids : Cardinality(R) = n /\ ~\E f : Sorted(f, R)
    OBVIOUS
  <2>5. R # {}
    <3> SUFFICES ASSUME R = {} PROVE FALSE
      OBVIOUS
    <3>1. Cardinality(R) = 0
      BY FS_EmptySet
    <3>2. PICK e : e = [i \in 1..0 |-> i]
      OBVIOUS
    <3>3. 1..0 = {}
      OBVIOUS
    <3>4. e \in [1..0 -> R] /\ DOMAIN e = {} /\ ToSet(e) = R
      BY <3>2, <3>3 DEF ToSet
    <3>5. Sorted(e, R)
      BY <3>1, <3>4 DEF Sorted
    <3> QED BY <2>4, <3>5
  <2>6. PICK T : T = R \ {Max(R)}
    OBVIOUS
  <2>7. T \in SUBSET Ids /\ Cardinality(T) = n - 1 /\ n - 1 \in Nat
    <3>1. Max(R) \in R
      BY <2>5, LatestOf
    <3>2. IsFiniteSet(R) /\ Cardinality(T) \in Nat
      BY <2>6, IdsFinite
    <3>3. Cardinality(T) = Cardinality(R) - 1
      BY <2>6, <3>1, <3>2, FS_RemoveElement
    <3> QED BY <2>4, <2>6, <3>2, <3>3
  <2>8. n - 1 \notin Bad
    BY <2>1, <2>3, <2>7
  <2>9. PICK g : Sorted(g, T)
    BY <2>7, <2>8
  <2> QED BY <2>4, <2>5, <2>6, <2>9, SortedMore
<1>2. Cardinality(S) \in Nat
  BY IdsFinite
<1>3. \E f : Sorted(f, S)
  BY <1>1, <1>2
<1>4. \E f \in [1..Cardinality(S) -> S] :
        /\ ToSet(f) = S
        /\ \A i, j \in DOMAIN f : i < j => f[i] < f[j]
  BY <1>3 DEF Sorted
<1>5. PICK f : f = InOrder(S)
  OBVIOUS
<1>6. /\ f \in [1..Cardinality(S) -> S]
      /\ ToSet(f) = S
      /\ \A i, j \in DOMAIN f : i < j => f[i] < f[j]
  BY <1>4, <1>5, Zenon DEF InOrder
<1> QED
  BY <1>5, <1>6 DEF Sorted

LEMMA Shown ==
  ASSUME messages \in Seq(Ids), NoDuplicates, NEW S \in SUBSET Ids, Show(S)
  PROVE  /\ messages' \in Seq(Ids) /\ NoDuplicates' /\ Held' = Held \cup S
<1>1. PICK F : F = S \ Held
  OBVIOUS
<1>2. PICK f : f = InOrder(F)
  OBVIOUS
<1>3. PICK n : n = Cardinality(F)
  OBVIOUS
<1>4. F \in SUBSET Ids /\ n \in Nat
  BY <1>1, <1>3, IdsFinite
<1>5. /\ f \in [1..n -> F] /\ ToSet(f) = F
      /\ \A i, j \in 1..n : i < j => f[i] < f[j]
  BY <1>2, <1>3, <1>4, InOrderSorted DEF Sorted
<1>6. f \in Seq(Ids) /\ Len(f) = n /\ DOMAIN f = 1..n
  BY <1>4, <1>5
<1>7. PICK M \in Seq(Ids) : M = messages
  OBVIOUS
<1>8. messages' = M \o f
  BY <1>1, <1>2, <1>7 DEF Show, Fresh
<1>9. PICK N \in Seq(Ids) : N = messages' /\ N = M \o f
  <2>1. M \o f \in Seq(Ids)
    BY <1>6
  <2> QED BY <1>8, <2>1
<1>10. /\ Len(N) = Len(M) + n /\ DOMAIN N = 1..(Len(M) + n)
       /\ \A i \in 1..Len(M) : N[i] = M[i]
       /\ \A i \in 1..n : N[Len(M) + i] = f[i]
  <2>0. N = M \o f /\ f \in Seq(Ids) /\ Len(f) = n
    BY <1>6, <1>9
  <2>l. DOMAIN N = 1..Len(N)
    OBVIOUS
  <2>m. Len(M \o f) = Len(M) + Len(f)
    BY <2>0, ConcatProperties
  <2>1. Len(N) = Len(M) + n /\ DOMAIN N = 1..Len(N)
    BY <2>0, <2>l, <2>m
  <2>2. ASSUME NEW i \in 1..Len(M) PROVE N[i] = M[i]
    <3>1. i \in 1..(Len(M) + n) /\ i <= Len(M)
      BY <1>4
    <3> QED BY <2>0, <3>1
  <2>3. ASSUME NEW i \in 1..n PROVE N[Len(M) + i] = f[i]
    <3>1. Len(M) + i \in 1..(Len(M) + n) /\ Len(M) + i > Len(M) /\ (Len(M) + i) - Len(M) = i
      BY <1>4
    <3> QED BY <2>0, <3>1
  <2> QED BY <2>1, <2>2, <2>3
<1>11. \A i \in 1..(Len(M) + n) : i \in 1..Len(M) \/ \E k \in 1..n : i = Len(M) + k
  <2> SUFFICES ASSUME NEW i \in 1..(Len(M) + n), i \notin 1..Len(M) PROVE \E k \in 1..n : i = Len(M) + k
    OBVIOUS
  <2>1. i - Len(M) \in 1..n /\ i = Len(M) + (i - Len(M))
    BY <1>4
  <2> QED BY <2>1
<1>12. Held = {M[i] : i \in 1..Len(M)}
  BY <1>7 DEF Held, ToSet
<1>13. NoDuplicates'
  <2>1. \A i, j \in 1..Len(M) : M[i] = M[j] => i = j
    BY <1>7 DEF NoDuplicates
  <2>2. \A i, j \in 1..n : f[i] = f[j] => i = j
    <3> SUFFICES ASSUME NEW i \in 1..n, NEW j \in 1..n, f[i] = f[j], i # j PROVE FALSE
      OBVIOUS
    <3>1. f[i] \in Nat /\ f[j] \in Nat
      BY <1>4, <1>5, IdsFinite
    <3>2. i < j \/ j < i
      OBVIOUS
    <3> QED BY <1>5, <3>1, <3>2
  <2>3. \A i \in 1..Len(M), k \in 1..n : M[i] # f[k]
    BY <1>1, <1>5, <1>12
  <2>4. \A i, j \in 1..(Len(M) + n) : N[i] = N[j] => i = j
    <3> SUFFICES ASSUME NEW i \in 1..(Len(M) + n), NEW j \in 1..(Len(M) + n), N[i] = N[j]
                 PROVE  i = j
      OBVIOUS
    <3>1. CASE i \in 1..Len(M) /\ j \in 1..Len(M)
      BY <1>10, <2>1, <3>1
    <3>2. ASSUME i \in 1..Len(M), NEW k \in 1..n, j = Len(M) + k PROVE FALSE
      <4>1. N[i] = M[i] /\ N[j] = f[k]
        BY <1>10, <3>2
      <4> QED BY <2>3, <3>2, <4>1
    <3>3. ASSUME j \in 1..Len(M), NEW k \in 1..n, i = Len(M) + k PROVE FALSE
      <4>1. N[j] = M[j] /\ N[i] = f[k]
        BY <1>10, <3>3
      <4> QED BY <2>3, <3>3, <4>1
    <3>4. ASSUME NEW k \in 1..n, i = Len(M) + k, NEW l \in 1..n, j = Len(M) + l PROVE i = j
      <4>1. N[i] = f[k] /\ N[j] = f[l]
        BY <1>10, <3>4
      <4>2. k = l
        BY <2>2, <4>1
      <4> QED BY <3>4, <4>2
    <3> QED BY <1>11, <3>1, <3>2, <3>3, <3>4
  <2> QED BY <1>9, <1>10, <2>4 DEF NoDuplicates
<1>14. Held' = Held \cup S
  <2>1. Held' = {N[i] : i \in 1..(Len(M) + n)}
    BY <1>9, <1>10 DEF Held, ToSet
  <2>2. ASSUME NEW x \in Held' PROVE x \in Held \cup F
    <3>1. PICK i \in 1..(Len(M) + n) : x = N[i]
      BY <2>1, <2>2
    <3> QED BY <1>5, <1>10, <1>11, <1>12, <3>1
  <2>3. ASSUME NEW x \in Held PROVE x \in Held'
    <3>1. PICK i \in 1..Len(M) : x = M[i]
      BY <1>12, <2>3
    <3>2. i \in 1..(Len(M) + n) /\ N[i] = x
      BY <1>4, <1>10, <3>1
    <3> QED BY <2>1, <3>2
  <2>4. ASSUME NEW x \in F PROVE x \in Held'
    <3>1. PICK k \in 1..n : f[k] = x
      BY <1>5, <1>6, <2>4 DEF ToSet
    <3>2. Len(M) + k \in 1..(Len(M) + n) /\ N[Len(M) + k] = x
      BY <1>4, <1>10, <3>1
    <3> QED BY <2>1, <3>2
  <2> QED BY <1>1, <2>2, <2>3, <2>4
<1> QED
  BY <1>9, <1>13, <1>14

\* a page is a first part of what there is, and all of it if that is no more than a page
LEMMA OldestFirst ==
  ASSUME NEW S \in SUBSET Ids
  PROVE  /\ Oldest(S) \subseteq S
         /\ \A i \in S \ Oldest(S), j \in Oldest(S) : j < i
         /\ S # {} => Oldest(S) # {}
         /\ Cardinality(S) <= Limit => Oldest(S) = S
<1> DEFINE Upto(j) == {k \in S : k <= j}
<1>0. S \subseteq Nat /\ IsFiniteSet(S) /\ Limit \in Nat \ {0}
  BY IdsFinite, ThreadConstants
<1>1. \A j : IsFiniteSet(Upto(j)) /\ Cardinality(Upto(j)) \in Nat /\ Cardinality(Upto(j)) <= Cardinality(S)
  BY <1>0, FS_Subset, FS_CardinalityType
<1>2. \A j \in S : j \in Oldest(S) <=> Cardinality(Upto(j)) <= Limit
  BY DEF Oldest
<1>3. ASSUME NEW i \in S \ Oldest(S), NEW j \in Oldest(S) PROVE j < i
  <2>0. j \in S /\ i \in Nat /\ j \in Nat
    BY <1>0 DEF Oldest
  <2> SUFFICES ASSUME i <= j PROVE FALSE
    BY <2>0
  <2>1. Upto(i) \in SUBSET Upto(j)
    <3>1. \A k \in S : k \in Nat /\ (k <= i => k <= j)
      BY <1>0, <2>0
    <3> QED BY <3>1
  <2>2. Cardinality(Upto(i)) <= Cardinality(Upto(j))
    <3> HIDE DEF Upto
    <3> QED BY <1>1, <2>1, FS_Subset
  <2>3. Cardinality(Upto(j)) <= Limit /\ ~(Cardinality(Upto(i)) <= Limit)
    BY <1>2, <2>0
  <2> HIDE DEF Upto
  <2> QED BY <1>0, <1>1, <2>2, <2>3
<1>4. ASSUME S # {} PROVE Oldest(S) # {}
  <2>1. S \in SUBSET Nat
    BY <1>0
  <2>2. PICK m \in S : \A j \in S : <<j, m>> \notin OpToRel(<, Nat)
    BY <1>4, <2>1, NatLessThanWellFounded, WFMin
  <2>3. \A j \in S : ~(j < m)
    BY <1>0, <2>2 DEF OpToRel
  <2>4. Upto(m) = {m}
    <3>1. \A k \in S : k <= m <=> k = m
      BY <1>0, <2>3
    <3> QED BY <3>1
  <2>5. Cardinality(Upto(m)) = 1
    BY <2>4, FS_Singleton
  <2>6. m \in Oldest(S)
    BY <1>0, <1>2, <2>5
  <2> QED BY <2>6
<1>5. ASSUME Cardinality(S) <= Limit PROVE Oldest(S) = S
  <2>1. Cardinality(S) \in Nat
    BY <1>0, FS_CardinalityType
  <2>2. \A j \in S : Cardinality(Upto(j)) <= Limit
    BY <1>0, <1>1, <1>5, <2>1
  <2> QED BY <1>2, <2>2 DEF Oldest
<1> QED
  BY <1>3, <1>4, <1>5 DEF Oldest

-----------------------------------------------------------------------------
(* The widget's inductive invariant: what a catch-up owes the thread is    *)
(* shown, or on the page in hand, or after the id it goes on from.         *)

WidgetTypes ==
    /\ up \in BOOLEAN /\ wire \subseteq Ids
    /\ messages \in Seq(Ids)
    /\ sync \in [CatchUps -> Sync]
    /\ owed \in [CatchUps -> SUBSET Ids] /\ behind \in [CatchUps -> SUBSET Ids]

Due(c) == owed[c] \ behind[c]

Chased(c) ==
    /\ owed[c] \subseteq Committed
    /\ sync[c].stage = "fetch" => \A i \in Due(c) : i \in Held \/ i > sync[c].after
    /\ sync[c].stage = "apply" =>
          /\ sync[c].more => sync[c].page # {}
          /\ \A i \in Due(c) :
                i \in Held \cup sync[c].page \/ (sync[c].more /\ i > Max(sync[c].page))
    /\ sync[c].stage = "done" => Due(c) \subseteq Held

WidgetInv == WidgetTypes /\ NoDuplicates /\ \A c \in CatchUps : Chased(c)

LEMMA InitWidget == Init => WidgetInv
<1> SUFFICES ASSUME Init PROVE WidgetInv
  OBVIOUS
<1>1. lastId \in {0, 1} /\ 1 \in Ids
  BY ThreadConstants, FS_CardinalityType DEF Init, Ids, MaxId
<1>2. messages \in Seq(Ids) /\ NoDuplicates
  <2>1. 1..lastId \subseteq Ids /\ lastId \in Nat
    BY <1>1
  <2>2. messages = [i \in 1..lastId |-> i]
    BY DEF Init
  <2> QED BY <2>1, <2>2 DEF NoDuplicates
<1>3. NoSync \in Sync
  BY DEF NoSync, Sync
<1>4. WidgetTypes
  BY <1>2, <1>3 DEF Init, WidgetTypes
<1>5. \A c \in CatchUps : Chased(c)
  BY DEF Init, Chased, NoSync
<1> QED
  BY <1>2, <1>4, <1>5 DEF WidgetInv

LEMMA CommittedIds ==
  ASSUME ServerTypes PROVE Committed \in SUBSET Ids
BY DEF ServerTypes, Committed

\* rows are never taken back
LEMMA CommittedGrows ==
  ASSUME [Next]_vars PROVE Committed \subseteq Committed'
<1>1. rows \subseteq rows'
  <2>1. ASSUME NEW s \in Sends, SendStep(s) PROVE rows \subseteq rows'
    BY <2>1 DEF SendStep, Find, Commit, Write, Refind, Emit, AnswerElsewhere, Answered, Die
  <2>2. ASSUME NEW i \in Ids, OnEvent(i) PROVE rows' = rows
    BY <2>2 DEF OnEvent, serverVars
  <2>3. ASSUME NEW c \in CatchUps, Reconnect(c) \/ SyncStep(c) PROVE rows' = rows
    BY <2>3 DEF Reconnect, SyncStep, ReadSince, Fetch, Apply, FetchFails, serverVars
  <2>4. CASE Disconnect \/ UNCHANGED vars
    BY <2>4 DEF Disconnect, serverVars, vars
  <2> QED BY <2>1, <2>2, <2>3, <2>4 DEF Next
<1> QED
  BY <1>1 DEF Committed

\* a catch-up is where it was, and the thread shows what it did and more
LEMMA ChasedKept ==
  ASSUME NEW c \in CatchUps, Chased(c), Held \subseteq Held', Committed \subseteq Committed',
         sync'[c] = sync[c], owed'[c] = owed[c], behind'[c] = behind[c]
  PROVE  Chased(c)'
BY DEF Chased, Due

LEMMA WidgetStep ==
  ASSUME ServerInv, ServerInv', WidgetInv, [Next]_vars
  PROVE  WidgetInv'
<1>0. /\ WidgetTypes /\ NoDuplicates /\ \A c \in CatchUps : Chased(c)
      /\ Committed \subseteq Committed'
      /\ Committed \in SUBSET Ids
  BY CommittedGrows, CommittedIds DEF WidgetInv, ServerInv
<1>s. /\ messages \in Seq(Ids) /\ sync \in [CatchUps -> Sync]
      /\ owed \in [CatchUps -> SUBSET Ids] /\ behind \in [CatchUps -> SUBSET Ids]
      /\ wire \subseteq Ids /\ up \in BOOLEAN
      /\ Held \in SUBSET Ids
  BY <1>0 DEF WidgetTypes, Held, ToSet
<1>1. ASSUME UNCHANGED <<sync, owed, behind>>, messages' \in Seq(Ids), NoDuplicates',
             Held \subseteq Held', wire' \subseteq Ids, up' \in BOOLEAN
      PROVE  WidgetInv'
  <2>1. \A c \in CatchUps : Chased(c)'
    BY <1>0, <1>1, ChasedKept
  <2> QED BY <1>s, <1>1, <2>1 DEF WidgetInv, WidgetTypes
<1>2. ASSUME UNCHANGED <<sync, owed, behind, messages>>, wire' \subseteq Ids, up' \in BOOLEAN
      PROVE  WidgetInv'
  <2>1. messages' \in Seq(Ids) /\ NoDuplicates' /\ Held' = Held
    BY <1>0, <1>s, <1>2 DEF NoDuplicates, Held
  <2> QED BY <1>1, <1>2, <2>1
<1>3. ASSUME NEW S \in SUBSET Ids, Show(S), UNCHANGED <<sync, owed, behind>>,
             wire' \subseteq Ids, up' \in BOOLEAN
      PROVE  WidgetInv'
  <2>1. messages' \in Seq(Ids) /\ NoDuplicates' /\ Held' = Held \cup S
    BY <1>0, <1>s, <1>3, Shown
  <2> QED BY <1>1, <1>3, <2>1
<1>4. ASSUME NEW s \in Sends, Find(s) \/ Commit(s) \/ Refind(s) \/ AnswerElsewhere(s) \/ Die(s)
      PROVE  WidgetInv'
  BY <1>2, <1>4, <1>s DEF Find, Commit, Refind, AnswerElsewhere, Die, socketVars, widgetVars
<1>i. ASSUME NEW s \in Sends, req[s].stage \in {"emit", "answer"} PROVE req[s].id \in Ids
  <2>1. [id |-> req[s].id, key |-> Key[s]] \in rows
    BY <1>i DEF ServerInv, StoredBeforeAnswer
  <2> QED BY <2>1 DEF ServerInv, ServerTypes
<1>5. ASSUME NEW s \in Sends, Emit(s) PROVE WidgetInv'
  <2>1. req[s].id \in Ids
    BY <1>5, <1>i DEF Emit
  <2>2. wire' \subseteq Ids
    BY <1>s, <1>5, <2>1 DEF Emit, Publish
  <2> QED BY <1>2, <1>5, <1>s, <2>2 DEF Emit, widgetVars
<1>6. ASSUME NEW s \in Sends, Answered(s) PROVE WidgetInv'
  <2>1. {req[s].id} \in SUBSET Ids
    BY <1>6, <1>i DEF Answered
  <2> QED BY <1>3, <1>6, <1>s, <2>1 DEF Answered, socketVars
<1>7. ASSUME NEW i \in Ids, OnEvent(i) PROVE WidgetInv'
  <2>1. {i} \in SUBSET Ids /\ wire' \subseteq Ids
    BY <1>7, <1>s DEF OnEvent
  <2> QED BY <1>3, <1>7, <1>s, <2>1 DEF OnEvent
<1>8. CASE Disconnect
  BY <1>2, <1>8, <1>s DEF Disconnect, widgetVars
<1>9. CASE UNCHANGED vars
  BY <1>2, <1>9, <1>s DEF vars, socketVars, widgetVars
<1>10. ASSUME NEW c \in CatchUps, NEW x \in Sync, sync' = [sync EXCEPT ![c] = x],
              NEW o \in SUBSET Ids, owed' = [owed EXCEPT ![c] = o],
              NEW b \in SUBSET Ids, behind' = [behind EXCEPT ![c] = b],
              up' \in BOOLEAN, wire' \subseteq Ids, messages' \in Seq(Ids), NoDuplicates',
              Held \subseteq Held', Chased(c)'
       PROVE  WidgetInv'
  <2>1. \A d \in CatchUps \ {c} : sync'[d] = sync[d] /\ owed'[d] = owed[d] /\ behind'[d] = behind[d]
    BY <1>s, <1>10
  <2>2. \A d \in CatchUps \ {c} : Chased(d)'
    BY <1>0, <1>10, <2>1, ChasedKept
  <2>3. /\ sync' \in [CatchUps -> Sync] /\ owed' \in [CatchUps -> SUBSET Ids]
        /\ behind' \in [CatchUps -> SUBSET Ids]
    BY <1>s, <1>10
  <2> QED BY <1>10, <2>2, <2>3 DEF WidgetInv, WidgetTypes
<1>11. ASSUME NEW c \in CatchUps, Reconnect(c) PROVE WidgetInv'
  <2>1. PICK x : x = [NoSync EXCEPT !.stage = "list"]
    OBVIOUS
  <2>2. x \in Sync /\ x.stage = "list"
    BY <2>1 DEF NoSync, Sync
  <2>3. PICK o : o = Committed \ Pending
    OBVIOUS
  <2>4. o \in SUBSET Ids /\ o \subseteq Committed
    BY <1>0, <2>3
  <2>e. PICK e \in SUBSET Ids : e = {}
    OBVIOUS
  <2>5. /\ sync' = [sync EXCEPT ![c] = x] /\ owed' = [owed EXCEPT ![c] = o]
        /\ behind' = [behind EXCEPT ![c] = e] /\ UNCHANGED <<wire, messages>> /\ up' = TRUE
    BY <1>11, <2>1, <2>3, <2>e DEF Reconnect
  <2>6. messages' \in Seq(Ids) /\ NoDuplicates' /\ Held' = Held
    BY <1>0, <1>s, <2>5 DEF NoDuplicates, Held
  <2>7. sync'[c] = x /\ owed'[c] = o
    BY <1>s, <2>5
  <2>8. Chased(c)'
    BY <1>0, <2>2, <2>4, <2>7 DEF Chased
  <2> QED BY <1>s, <1>10, <2>2, <2>4, <2>5, <2>6, <2>8
<1>12. ASSUME NEW c \in CatchUps, ReadSince(c) PROVE WidgetInv'
  <2>0. UNCHANGED <<up, wire, messages, owed>> /\ sync[c] \in Sync /\ owed[c] \in SUBSET Ids
    BY <1>12, <1>s DEF ReadSince, socketVars
  <2>1. messages' \in Seq(Ids) /\ NoDuplicates' /\ Held' = Held /\ owed' = [owed EXCEPT ![c] = owed[c]]
    BY <1>0, <1>s, <2>0 DEF NoDuplicates, Held
  <2>2. ASSUME NEW x \in Sync, sync' = [sync EXCEPT ![c] = x],
               NEW b \in SUBSET Ids, behind' = [behind EXCEPT ![c] = b],
               \/ x.stage = "done" /\ owed[c] \subseteq b
               \/ x.stage = "fetch" /\ \A i \in owed[c] \ b : i \in Held \/ i > x.after
        PROVE  WidgetInv'
    <3>1. sync'[c] = x /\ owed'[c] = owed[c] /\ behind'[c] = b
      BY <1>s, <2>1, <2>2
    <3>2. owed[c] \subseteq Committed
      BY <1>0 DEF Chased
    <3>3. Chased(c)'
      BY <1>0, <2>1, <2>2, <3>1, <3>2 DEF Chased, Due
    <3> QED BY <1>s, <1>10, <2>0, <2>1, <2>2, <3>3
  <2>3. CASE messages = <<>>
    <3>1. PICK x : x = [sync[c] EXCEPT !.stage = "done"]
      OBVIOUS
    <3>2. x \in Sync /\ x.stage = "done"
      BY <2>0, <3>1 DEF Sync
    <3>3. sync' = [sync EXCEPT ![c] = x] /\ behind' = [behind EXCEPT ![c] = owed[c]]
      BY <1>12, <1>s, <2>3, <3>1 DEF ReadSince
    <3> QED BY <2>0, <2>2, <3>2, <3>3
  <2>4. CASE messages # <<>>
    <3>1. PICK since : since = Last(messages)
      OBVIOUS
    <3>2. since \in Ids /\ since \in Held
      BY <1>s, <2>4, <3>1 DEF Last, Held, ToSet
    <3>3. PICK x : x = [sync[c] EXCEPT !.stage = "fetch", !.after = since]
      OBVIOUS
    <3>4. x \in Sync /\ x.stage = "fetch" /\ x.after = since
      BY <2>0, <3>2, <3>3 DEF Sync
    <3>5. PICK b : b = {i \in owed[c] \ Held : i < since}
      OBVIOUS
    <3>6. sync' = [sync EXCEPT ![c] = x] /\ behind' = [behind EXCEPT ![c] = b]
      BY <1>12, <1>s, <2>4, <3>1, <3>3, <3>5 DEF ReadSince
    <3>7. b \in SUBSET Ids
      BY <2>0, <3>5
    <3>8. \A i \in owed[c] \ b : i \in Held \/ i > since
      <4>1. \A i \in owed[c] : i \in Nat /\ since \in Nat
        BY <2>0, <3>2, IdsFinite
      <4> QED BY <3>2, <3>5, <4>1
    <3> QED BY <2>2, <3>4, <3>6, <3>7, <3>8
  <2> QED BY <2>3, <2>4
<1>13. ASSUME NEW c \in CatchUps, Fetch(c) PROVE WidgetInv'
  <2>0. UNCHANGED <<up, wire, messages, owed, behind>> /\ sync[c] \in Sync /\ Chased(c)
    BY <1>0, <1>13, <1>s DEF Fetch, socketVars
  <2>1. /\ messages' \in Seq(Ids) /\ NoDuplicates' /\ Held' = Held
        /\ owed' = [owed EXCEPT ![c] = owed[c]] /\ behind' = [behind EXCEPT ![c] = behind[c]]
        /\ owed[c] \in SUBSET Ids /\ behind[c] \in SUBSET Ids
    BY <1>0, <1>s, <2>0 DEF NoDuplicates, Held
  <2>2. PICK a : a = sync[c].after
    OBVIOUS
  <2>3. PICK F : F = After(a)
    OBVIOUS
  <2>4. PICK P : P = Oldest(F)
    OBVIOUS
  <2>5. PICK more : more = (Cardinality(F) > Limit)
    OBVIOUS
  <2>b. more \in BOOLEAN /\ (more <=> Cardinality(F) > Limit)
    <3>1. (Cardinality(F) > Limit) \in BOOLEAN
      OBVIOUS
    <3> QED BY <2>5, <3>1, Zenon
  <2>6. F = {j \in Committed : j > a} /\ F \in SUBSET Ids /\ Cardinality(F) \in Nat
    BY <1>0, <2>3, IdsFinite DEF After
  <2>7. /\ P \subseteq F /\ P \in SUBSET Ids
        /\ \A i \in F \ P, j \in P : j < i
        /\ F # {} => P # {}
        /\ ~more => P = F
    <3>1. Limit \in Nat
      BY ThreadConstants
    <3>2. ~more => Cardinality(F) <= Limit
      BY <2>b, <2>6, <3>1
    <3> QED BY <2>4, <2>6, <3>2, OldestFirst
  <2>8. more => F # {}
    BY <2>b, <2>6, FS_EmptySet, ThreadConstants
  <2>9. PICK x : x = [sync[c] EXCEPT !.stage = "apply", !.page = P, !.more = more]
    OBVIOUS
  <2>10. x \in Sync /\ x.stage = "apply" /\ x.page = P /\ x.more = more
    BY <2>0, <2>7, <2>9, <2>b DEF Sync
  <2>11. sync' = [sync EXCEPT ![c] = x]
    BY <1>13, <1>s, <2>2, <2>3, <2>4, <2>5, <2>9 DEF Fetch
  <2>12. sync'[c] = x /\ owed'[c] = owed[c] /\ behind'[c] = behind[c]
    BY <1>s, <2>1, <2>11
  <2>13. ASSUME NEW i \in owed[c] \ behind[c]
         PROVE  i \in Held \cup P \/ (more /\ i > Max(P))
    <3>1. i \in Held \/ i \in F
      <4>1. i \in Held \/ i > a
        BY <1>13, <2>0, <2>2, <2>13 DEF Fetch, Chased, Due
      <4>2. i \in Committed
        BY <2>0, <2>13 DEF Chased
      <4> QED BY <2>6, <4>1, <4>2
    <3>2. ASSUME i \in F, i \notin P PROVE more /\ i > Max(P)
      <4>1. more /\ P # {}
        BY <2>7, <3>2
      <4>2. Max(P) \in P
        BY <2>7, <4>1, LatestOf
      <4>3. Max(P) < i /\ Max(P) \in Nat /\ i \in Nat
        BY <2>6, <2>7, <3>2, <4>2, IdsFinite
      <4> QED BY <4>1, <4>3
    <3> QED BY <3>1, <3>2
  <2>14. owed[c] \subseteq Committed
    BY <2>0 DEF Chased
  <2>15. Chased(c)'
    BY <1>0, <2>1, <2>7, <2>8, <2>10, <2>12, <2>13, <2>14 DEF Chased, Due
  <2> QED BY <1>s, <1>10, <2>0, <2>1, <2>10, <2>11, <2>15
<1>14. ASSUME NEW c \in CatchUps, Apply(c) PROVE WidgetInv'
  <2>0. /\ UNCHANGED <<up, wire, owed, behind>> /\ sync[c] \in Sync /\ Chased(c)
        /\ sync[c].stage = "apply"
    BY <1>0, <1>14, <1>s DEF Apply, socketVars
  <2>1. PICK P \in SUBSET Ids : P = sync[c].page
    BY <2>0 DEF Sync
  <2>2. messages' \in Seq(Ids) /\ NoDuplicates' /\ Held' = Held \cup P
    BY <1>0, <1>s, <1>14, <2>1, Shown DEF Apply
  <2>3. /\ owed' = [owed EXCEPT ![c] = owed[c]] /\ behind' = [behind EXCEPT ![c] = behind[c]]
        /\ owed[c] \in SUBSET Ids /\ behind[c] \in SUBSET Ids
    BY <1>s, <2>0
  <2>4. ASSUME NEW x \in Sync, sync' = [sync EXCEPT ![c] = x],
               \/ x.stage = "done" /\ owed[c] \ behind[c] \subseteq Held \cup P
               \/ x.stage = "fetch" /\ \A i \in owed[c] \ behind[c] : i \in Held \cup P \/ i > x.after
        PROVE  WidgetInv'
    <3>1. sync'[c] = x /\ owed'[c] = owed[c] /\ behind'[c] = behind[c]
      BY <1>s, <2>3, <2>4
    <3>2. owed[c] \subseteq Committed
      BY <2>0 DEF Chased
    <3>3. Chased(c)'
      BY <1>0, <2>2, <2>4, <3>1, <3>2 DEF Chased, Due
    <3> QED BY <1>s, <1>10, <2>0, <2>2, <2>3, <2>4, <3>3
  <2>5. \A i \in owed[c] \ behind[c] : i \in Held \cup P \/ (sync[c].more /\ i > Max(P))
    BY <2>0, <2>1 DEF Chased, Due
  <2>6. CASE sync[c].more
    <3>1. PICK m : m = Max(P)
      OBVIOUS
    <3>2. m \in Ids
      BY <2>0, <2>1, <2>6, <3>1, LatestOf DEF Chased
    <3>3. PICK x : x = [sync[c] EXCEPT !.stage = "fetch", !.after = m, !.page = {}]
      OBVIOUS
    <3>4. x \in Sync /\ x.stage = "fetch" /\ x.after = m
      BY <2>0, <3>2, <3>3 DEF Sync
    <3>5. sync' = [sync EXCEPT ![c] = x]
      BY <1>14, <1>s, <2>1, <2>6, <3>1, <3>3 DEF Apply
    <3> QED BY <2>4, <2>5, <3>1, <3>4, <3>5
  <2>7. CASE ~sync[c].more
    <3>1. PICK x : x = [NoSync EXCEPT !.stage = "done"]
      OBVIOUS
    <3>2. x \in Sync /\ x.stage = "done"
      BY <3>1 DEF NoSync, Sync
    <3>3. sync' = [sync EXCEPT ![c] = x]
      BY <1>14, <2>7, <3>1 DEF Apply, Ended
    <3> QED BY <2>4, <2>5, <2>7, <3>2, <3>3
  <2> QED BY <2>6, <2>7
<1>15. ASSUME NEW c \in CatchUps, FetchFails(c) PROVE WidgetInv'
  <2>1. PICK e \in SUBSET Ids : e = {}
    OBVIOUS
  <2>2. /\ sync' = [sync EXCEPT ![c] = NoSync] /\ owed' = [owed EXCEPT ![c] = e]
        /\ behind' = [behind EXCEPT ![c] = e] /\ UNCHANGED <<up, wire, messages>>
    BY <1>15, <2>1 DEF FetchFails, socketVars
  <2>3. messages' \in Seq(Ids) /\ NoDuplicates' /\ Held' = Held
    BY <1>0, <1>s, <2>2 DEF NoDuplicates, Held
  <2>4. NoSync \in Sync /\ NoSync.stage = "idle"
    BY DEF NoSync, Sync
  <2>5. sync'[c] = NoSync /\ owed'[c] = {}
    BY <1>s, <2>1, <2>2
  <2>6. Chased(c)'
    BY <2>4, <2>5 DEF Chased
  <2> QED BY <1>s, <1>10, <2>2, <2>3, <2>4, <2>6
<1> QED
  BY <1>4, <1>5, <1>6, <1>7, <1>8, <1>9, <1>11, <1>12, <1>13, <1>14, <1>15 DEF Next, SendStep, SyncStep

LEMMA WidgetInvHolds == Spec => []WidgetInv
<1>1. ServerInv /\ ServerInv' /\ WidgetInv /\ [Next]_vars => WidgetInv'
  BY WidgetStep
<1> QED
  BY <1>1, InitWidget, ServerInvHolds, PTL DEF Spec

(* Over all retries and reorders, both ends keep their types, SendMessage  *)
(* (message.go) announces a message once, and the widget (client.ts)       *)
(* shows it once, whether it comes from the socket, as an answer or with   *)
(* any number of catch-ups.                                                *)
THEOREM ThreadInvHolds == Spec => []ThreadInv
<1>1. ServerInv /\ WidgetInv => ThreadInv
  <2> SUFFICES ASSUME ServerInv, WidgetInv PROVE ThreadInv
    OBVIOUS
  <2>1. nudges \subseteq Ids
    BY CommittedIds DEF ServerInv, AnnouncedOnce
  <2>2. lastId \in Ids \cup {NoId}
    <3>1. IsFiniteSet(Started) /\ Cardinality(Started) \in Nat
      BY StartedFinite DEF ServerInv
    <3>2. Cardinality(Started) <= Cardinality(Sends) /\ Cardinality(Sends) \in Nat
      <4>1. Started \subseteq Sends
        BY DEF Started
      <4> QED BY <4>1, ThreadConstants, FS_Subset, FS_CardinalityType
    <3>3. lastId \in Nat /\ lastId <= 1 + Cardinality(Started)
      BY DEF ServerInv, ServerTypes, IdsSuffice
    <3> QED BY <3>1, <3>2, <3>3 DEF Ids, MaxId
  <2> QED BY <2>1, <2>2 DEF ServerInv, ServerTypes, WidgetInv, WidgetTypes, ThreadInv, ThreadTypeOK
<1> QED
  BY <1>1, ServerInvHolds, WidgetInvHolds, PTL

(* A catch-up that ends has fetched all there was after its cursor when    *)
(* the widget reconnected (catchUpActiveThread, sincePages), for any page  *)
(* size, any gap and whatever is sent, published and shown meanwhile.      *)
THEOREM CaughtUpFromSinceHolds == Spec => []CaughtUpFromSince
<1>1. WidgetInv => CaughtUpFromSince
  BY DEF WidgetInv, Chased, Due, CaughtUpFromSince
<1> QED
  BY <1>1, WidgetInvHolds, PTL

=============================================================================
