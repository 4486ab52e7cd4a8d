------------------------ MODULE UploadTransferProofs ------------------------
(***************************************************************************)
(* Theorems about UploadTransfer, for any number of transfers, chunks and  *)
(* lanes: the hourly sweep removes no chunk of a session that can still be *)
(* completed, every variable stays within its type, and one file becomes   *)
(* one asset.                                                              *)
(***************************************************************************)
EXTENDS UploadTransfer, FiniteSetTheorems, WellFoundedInduction, TLAPS

States == {"none", "pending", "completed", "cancelled", "expired"}

(* What the proof needs to know of the types.                              *)
SessionTypes ==
  /\ transfer \in 0 .. Transfers
  /\ session \in [Ids -> States]
  /\ cancel \in 0 .. Transfers
  /\ kept \in 0 .. Transfers
  /\ using \in [Ids -> 0 .. Transfers]
  /\ flow # "idle" => transfer \in Ids
  /\ flow \in {"asking", "preparing"} => kept \in Ids

(* A lane at work has a session.                                           *)
Equipped(lanes, use) ==
  /\ lanes = [t \in Ids |-> [l \in LaneIds |-> lanes[t][l]]]
  /\ \A t \in Ids : \A l \in LaneIds : lanes[t][l].at # "ended" => use[t] \in Ids

(* A session is opened by its own transfer only, once.                     *)
OpenedOnce ==
  /\ \A s \in Ids : s > transfer => session[s] = "none"
  /\ flow \in {"asking", "opening"} => session[transfer] = "none"
  /\ cancel # 0 => session[cancel] # "none"

(* A chunk that is old has outlived its session.                           *)
OldIsOver ==
  /\ \A p \in parts : p[1] \in Ids
  /\ \A p \in old : p \in parts /\ session[p[1]] \in {"cancelled", "expired"}

SweepInv == SessionTypes /\ Equipped(lane, using) /\ OpenedOnce /\ OldIsOver

-----------------------------------------------------------------------------
LEMMA InitSweepInv == Init => SweepInv
BY TransfersAssumption
   DEF Init, SweepInv, SessionTypes, Equipped, OpenedOnce, OldIsOver, States, Ids, Resting

LEMMA WokenIsEquipped ==
  ASSUME NEW lanes, NEW use, Equipped(lanes, use)
  PROVE  Equipped(Woken(lanes), use)
<1>1. \A t \in Ids : \A l \in LaneIds : Woken(lanes)[t][l].at # "ended" => lanes[t][l].at # "ended"
  BY DEF Woken
<1>2. Woken(lanes) = [t \in Ids |-> [l \in LaneIds |-> Woken(lanes)[t][l]]]
  BY DEF Woken
<1> QED
  BY <1>1, <1>2 DEF Equipped

LEMMA OneLaneIsEquipped ==
  ASSUME NEW lanes, NEW use, Equipped(lanes, use), NEW t \in Ids, NEW l \in LaneIds, NEW new,
         new.at = "ended" \/ use[t] \in Ids
  PROVE  Equipped([lanes EXCEPT ![t][l] = new], use)
BY DEF Equipped

LEMMA EndIsEquipped ==
  ASSUME NEW end, NEW lanes, Equipped(lanes, using), EndTransfer(end, lanes)
  PROVE  Equipped(lane', using)
BY WokenIsEquipped DEF EndTransfer

(* A transfer sets out with a session.                                     *)
LEMMA PrepareIsEquipped ==
  ASSUME SessionTypes, Equipped(lane, using), NEW s \in Ids, transfer \in Ids, Prepare(s)
  PROVE  Equipped(lane', using') /\ using' \in [Ids -> 0 .. Transfers]
<1> DEFINE own == lane'[transfer]
<1>1. using' = [using EXCEPT ![transfer] = s] /\ using' \in [Ids -> 0 .. Transfers]
  BY DEF Prepare, SessionTypes, Ids
<1>2. /\ own = [l \in LaneIds |-> own[l]]
      /\ lane' = [lane EXCEPT ![transfer] = own]
  BY DEF Prepare, Equipped
<1> HIDE DEF own
<1> QED
  BY <1>1, <1>2 DEF Equipped, SessionTypes

(* Steps of the browser that store nothing.                                *)
LEMMA BrowserKeeps ==
  ASSUME SweepInv, Start \/ Browse \/ Resume \/ LoseAnswer
  PROVE  SweepInv'
<1> USE TransfersAssumption DEF SweepInv, SessionTypes, OpenedOnce, OldIsOver, States, Ids,
        Busy, server, storage, plan, cancelling, sweeping
<1>1. CASE Start
  <2>1. kept' \in 0 .. Transfers /\ (flow' = "asking" => kept' \in Ids)
    BY <1>1 DEF Start, Offered
  <2> QED
    BY <1>1, <2>1 DEF Start
<1>2. CASE AskStatus
  <2>1. CASE Open(kept) /\ Prepare(kept) /\ UNCHANGED kept
    <3>1. Equipped(lane', using') /\ using' \in [Ids -> 0 .. Transfers]
      BY <1>2, <2>1, PrepareIsEquipped DEF AskStatus
    <3> QED
      BY <1>2, <2>1, <3>1 DEF AskStatus, Prepare
  <2>2. CASE flow' = "opening" /\ kept' = 0 /\ UNCHANGED <<using, pending, lane>>
    BY <1>2, <2>2 DEF AskStatus
  <2> QED
    BY <1>2, <2>1, <2>2 DEF AskStatus
<1>3. CASE OpenSession
  <2>1. session' = [session EXCEPT ![transfer] = "pending"] /\ session[transfer] = "none"
    BY <1>3 DEF OpenSession
  <2>2. UNCHANGED <<transfer, cancel, old, parts, using>> /\ transfer \in Ids
    BY <1>3 DEF OpenSession
  <2>3. \/ flow' = "preparing" /\ kept' = transfer
        \/ flow' = "failed" /\ kept' = kept
    BY <1>3 DEF OpenSession, EndTransfer
  <2>4. Equipped(lane', using')
    BY <1>3, EndIsEquipped DEF OpenSession
  <2> QED
    BY <2>1, <2>2, <2>3, <2>4
<1>4. CASE Refuse
  BY <1>4, EndIsEquipped DEF Refuse, EndTransfer
<1>5. CASE AskChunks
  <2>1. Equipped(lane', using') /\ using' \in [Ids -> 0 .. Transfers]
    BY <1>5, PrepareIsEquipped DEF AskChunks
  <2> QED
    BY <1>5, <2>1 DEF AskChunks, Prepare
<1>6. CASE MissSession
  BY <1>6, EndIsEquipped DEF MissSession, EndTransfer
<1>7. CASE AskCompletion
  BY <1>7 DEF AskCompletion
<1>8. CASE Resume
  BY <1>8, WokenIsEquipped DEF Resume
<1>9. CASE LoseAnswer
  BY <1>9, EndIsEquipped DEF LoseAnswer, EndTransfer
<1> QED
  BY <1>1, <1>2, <1>3, <1>4, <1>5, <1>6, <1>7, <1>8, <1>9 DEF Browse

(* A chunk just stored has a session, and is not old.                      *)
LEMMA StoringKeeps ==
  ASSUME SweepInv,
         \/ Pause \/ Reload
         \/ \E t \in Ids, l \in LaneIds : StoreChunk(t, l) \/ FailChunk(t, l)
  PROVE  SweepInv'
<1>1. ASSUME UNCHANGED <<transfer, session, cancel, using>>,
             UNCHANGED <<flow, kept>> \/ (flow # "idle" /\ flow' = "failed" /\ kept' = kept),
             NEW new, \A p \in new : p[1] \in Ids,
             Store(new) \/ UNCHANGED <<parts, old>>,
             Equipped(lane', using)
      PROVE  SweepInv'
  BY <1>1 DEF SweepInv, SessionTypes, OpenedOnce, OldIsOver, Store
<1>2. \A p \in UnderWay : using[p[1]] \in Ids
  BY DEF UnderWay, SweepInv, Equipped
<1>3. CASE Pause
  <2>1. PICK stored \in SUBSET UnderWay :
               Store({<<using[p[1]], lane[p[1]][p[2]].chunk>> : p \in stored})
    BY <1>3 DEF Pause
  <2> DEFINE new == {<<using[p[1]], lane[p[1]][p[2]].chunk>> : p \in stored}
  <2>2. \A p \in new : p[1] \in Ids
    BY <1>2
  <2>3. UNCHANGED <<transfer, session, cancel, using, flow, kept>>
    BY <1>3 DEF Pause, server, cancelling
  <2>4. Equipped(lane', using)
    BY <1>3 DEF Pause, UnderWay, SweepInv, Equipped
  <2> QED
    BY <1>1, <2>1, <2>2, <2>3, <2>4
<1>4. CASE Reload
  <2>1. PICK stored \in SUBSET UnderWay :
               Store({<<using[p[1]], lane[p[1]][p[2]].chunk>> : p \in stored})
    BY <1>4 DEF Reload
  <2> DEFINE new == {<<using[p[1]], lane[p[1]][p[2]].chunk>> : p \in stored}
             rest == [t \in Ids |-> [l \in LaneIds |-> Resting]]
  <2>2. \A p \in new : p[1] \in Ids
    BY <1>2
  <2>3. /\ UNCHANGED <<transfer, session, cancel, using>>
        /\ flow # "idle" /\ flow' = "failed" /\ kept' = kept
    BY <1>4 DEF Reload, EndTransfer, Busy, server, cancelling, plan
  <2>4. Equipped(rest, using) /\ EndTransfer("failed", rest)
    BY <1>4 DEF Reload, Equipped, Resting
  <2>5. Equipped(lane', using)
    BY <2>4, EndIsEquipped
  <2> QED
    BY <1>1, <2>1, <2>2, <2>3, <2>5
<1>5. ASSUME NEW t \in Ids, NEW l \in LaneIds, StoreChunk(t, l)
      PROVE  SweepInv'
  <2> DEFINE new == {<<using[t], lane[t][l].chunk>>}
  <2>1. using[t] \in Ids
    BY <1>5 DEF StoreChunk, SweepInv, Equipped
  <2>2. UNCHANGED <<transfer, session, cancel, using, flow, kept>> /\ Store(new)
    BY <1>5 DEF StoreChunk, server, cancelling
  <2>3. Equipped(lane', using)
    <3>1. PICK one : lane' = [lane EXCEPT ![t][l] = one]
      BY <1>5 DEF StoreChunk
    <3> QED
      BY <2>1, <3>1, OneLaneIsEquipped DEF SweepInv
  <2> QED
    BY <1>1, <2>1, <2>2, <2>3
<1>6. ASSUME NEW t \in Ids, NEW l \in LaneIds, FailChunk(t, l)
      PROVE  SweepInv'
  <2> DEFINE new == {<<using[t], lane[t][l].chunk>>}
             left == [lane EXCEPT ![t][l] = Resting]
  <2>1. using[t] \in Ids
    BY <1>6 DEF FailChunk, SweepInv, Equipped
  <2>2. UNCHANGED <<transfer, session, cancel, using>> /\ (Store(new) \/ UNCHANGED <<parts, old>>)
    BY <1>6 DEF FailChunk, server, cancelling, plan
  <2>3. Equipped(left, using)
    BY <2>1, OneLaneIsEquipped DEF SweepInv
  <2>4. \/ flow = "sending" /\ EndTransfer("failed", left)
        \/ GoOn(left)
    BY <1>6 DEF FailChunk
  <2>5. Equipped(lane', using)
    BY <2>3, <2>4, EndIsEquipped DEF GoOn
  <2>6. UNCHANGED <<flow, kept>> \/ (flow # "idle" /\ flow' = "failed" /\ kept' = kept)
    BY <2>4 DEF EndTransfer, GoOn
  <2> QED
    BY <1>1, <2>1, <2>2, <2>5, <2>6
<1> QED
  BY <1>3, <1>4, <1>5, <1>6

(* A completion ends a session that was open, and adds no chunk.           *)
LEMMA CompletionKeeps ==
  ASSUME SweepInv, NEW t \in Ids, CompleteUpload(t)
  PROVE  SweepInv'
<1>1. UNCHANGED <<transfer, cancel, using>> /\ parts' \subseteq parts /\ old' \subseteq old
  BY DEF CompleteUpload, CheckSession, Compose, StoreAsset, CloseSession, ClearChunks, Raise,
         DeleteChunks, storage, plan, cancelling
<1>2. \A p \in old' : p \in parts'
  BY DEF CompleteUpload, CheckSession, Compose, StoreAsset, CloseSession, ClearChunks, Raise,
         DeleteChunks, storage, SweepInv, OldIsOver
<1>3. \/ session' = session
      \/ session' = [session EXCEPT ![using[t]] = IF @ = "pending" THEN "completed" ELSE @]
  BY DEF CompleteUpload, CheckSession, Compose, StoreAsset, CloseSession, ClearChunks, Raise
<1>4. \/ GoOn(lane)
      \/ flow = "completing" /\ (EndTransfer("done", lane) \/ EndTransfer("failed", lane))
  BY DEF CompleteUpload, CheckSession, Compose, StoreAsset, CloseSession, ClearChunks, Raise, Answer
<1>5. Equipped(lane', using')
  BY <1>1, <1>4, EndIsEquipped DEF GoOn, SweepInv
<1>6. \/ UNCHANGED <<flow, kept>>
      \/ flow = "completing" /\ flow' \in {"done", "failed"} /\ kept' \in {kept, 0}
  BY <1>4 DEF GoOn, EndTransfer
<1>7. /\ session' \in [Ids -> States]
      /\ \A s \in Ids : session[s] \in {"none", "cancelled", "expired"} => session'[s] = session[s]
      /\ \A s \in Ids : session[s] # "none" => session'[s] # "none"
  BY <1>3 DEF SweepInv, SessionTypes, States
<1>8. SessionTypes' /\ OpenedOnce'
  BY <1>1, <1>6, <1>7, TransfersAssumption DEF SweepInv, SessionTypes, OpenedOnce, Ids
<1>9. OldIsOver'
  BY <1>1, <1>2, <1>7 DEF SweepInv, OldIsOver
<1> QED
  BY <1>5, <1>8, <1>9 DEF SweepInv

(* Cancellation, expiry, age and the sweep.                                *)
LEMMA EndingKeeps ==
  ASSUME SweepInv,
         StartCancel \/ ClearCancelled \/ RemoveSession \/ Expire \/ Age \/ ReadActive \/ RemoveUnused
  PROVE  SweepInv'
<1> USE DEF SweepInv, SessionTypes, OpenedOnce, OldIsOver, States, Ids, plan, dialog, storage,
        cancelling, sweeping
<1>1. CASE StartCancel
  BY <1>1 DEF StartCancel, Open
<1>2. CASE ClearCancelled
  BY <1>2 DEF ClearCancelled, DeleteChunks
<1>3. CASE RemoveSession
  <2>1. UNCHANGED <<transfer, flow, kept, using, lane, parts, old>> /\ cancel' = 0 /\ cancel \in Ids
    BY <1>3 DEF RemoveSession
  <2>2. session' = [session EXCEPT ![cancel] = IF @ = "expired" THEN @ ELSE "cancelled"]
    BY <1>3 DEF RemoveSession
  <2>3. \A s \in Ids : session'[s] = IF s # cancel THEN session[s]
                                     ELSE IF session[s] = "expired" THEN "expired" ELSE "cancelled"
    BY <2>2
  <2>4. session' \in [Ids -> States]
    BY <2>1, <2>2
  <2> QED
    BY SMTT(40), <2>1, <2>3, <2>4, TransfersAssumption
<1>4. CASE Expire
  <2>1. PICK s \in Ids : /\ session[s] \in {"pending", "completed"}
                         /\ session' = [session EXCEPT ![s] = "expired"]
    BY <1>4 DEF Expire
  <2>2. UNCHANGED <<transfer, flow, kept, using, lane, parts, old, cancel>>
    BY <1>4 DEF Expire
  <2> QED
    BY <2>1, <2>2
<1>5. CASE Age
  BY <1>5 DEF Age, server
<1>6. CASE ReadActive
  BY <1>6 DEF ReadActive
<1>7. CASE RemoveUnused
  BY <1>7 DEF RemoveUnused
<1> QED
  BY <1>1, <1>2, <1>3, <1>4, <1>5, <1>6, <1>7

-----------------------------------------------------------------------------
(* In every reachable state an old chunk belongs to a session that is      *)
(* over.                                                                   *)
LEMMA SweepInvariant == Spec => []SweepInv
<1>1. SweepInv /\ [Next]_vars => SweepInv'
  <2> SUFFICES ASSUME SweepInv, [Next]_vars PROVE SweepInv'
    OBVIOUS
  <2>1. CASE Next
    BY <2>1, BrowserKeeps, StoringKeeps, CompletionKeeps, EndingKeeps DEF Next
  <2>2. CASE UNCHANGED vars
    BY <2>2 DEF vars, plan, dialog, storage, server, cancelling, sweeping, SweepInv, SessionTypes,
       Equipped, OpenedOnce, OldIsOver
  <2> QED
    BY <2>1, <2>2
<1> QED
  BY <1>1, InitSweepInv, PTL DEF Spec

LEMMA OnlySweepEnds == ASSUME [Next]_vars, sweep, ~sweep' PROVE RemoveUnused
<1>1. ASSUME NEW t \in Ids, CompleteUpload(t) PROVE sweep' = sweep
  BY <1>1 DEF CompleteUpload, sweeping
<1>2. ASSUME NEW t \in Ids, NEW l \in LaneIds, StoreChunk(t, l) \/ FailChunk(t, l)
      PROVE  sweep' = sweep
  BY <1>2 DEF StoreChunk, FailChunk, server, sweeping
<1>3. ASSUME Start \/ Browse \/ Pause \/ Resume \/ Reload \/ LoseAnswer PROVE sweep' = sweep
  BY <1>3 DEF Start, Browse, AskStatus, OpenSession, Refuse, AskChunks, MissSession, AskCompletion,
     Pause, Resume, Reload, LoseAnswer, server, sweeping
<1>4. ASSUME StartCancel \/ ClearCancelled \/ RemoveSession \/ Expire \/ Age PROVE sweep' = sweep
  BY <1>4 DEF StartCancel, ClearCancelled, RemoveSession, Expire, Age, server, sweeping
<1>5. ReadActive => sweep'
  BY DEF ReadActive
<1>6. UNCHANGED vars => sweep' = sweep
  BY DEF vars, server, sweeping
<1> QED
  BY <1>1, <1>2, <1>3, <1>4, <1>5, <1>6 DEF Next

(* cleanup_expired_upload_chunks spares every session that can still be    *)
(* completed, however long ago it read which sessions there are.           *)
THEOREM SweepSpares == Spec => SweepSparesOpen
<1>1. ASSUME SweepInv, [Next]_vars, sweep, ~sweep'
      PROVE  \A p \in parts \ parts' : ~Open(p[1])
  <2>1. parts \ parts' \subseteq old
    BY <1>1, OnlySweepEnds DEF RemoveUnused, Unused
  <2> QED
    BY <1>1, <2>1 DEF SweepInv, OldIsOver, Open
<1>2. SweepInv /\ [Next]_vars
        => [sweep /\ ~sweep' => \A p \in parts \ parts' : ~Open(p[1])]_vars
  BY <1>1
<1> QED
  BY <1>2, SweepInvariant, PTL DEF Spec, SweepSparesOpen

-----------------------------------------------------------------------------
(* The n-th chunk of those that are left is one of them.                   *)

(* The elements of a set below one of them.                                *)
Below(S, c) == {b \in S : b < c}

(* Of finitely many chunks one comes first.                                *)
LEMMA LeastExists ==
  ASSUME NEW S \in SUBSET Nat, IsFiniteSet(S), S # {}
  PROVE  \E x \in S : \A y \in S : x <= y
<1> DEFINE F == {Below(S, c) : c \in S}
<1>1. F \subseteq FiniteSubsetsOf(S)
  <2>1. \A c \in S : IsFiniteSet(Below(S, c)) /\ Below(S, c) \in SUBSET S
    BY FS_Subset DEF Below
  <2> QED BY <2>1 DEF FiniteSubsetsOf
<1>2. \E x \in F : \A y \in F : ~(<<y, x>> \in StrictSubsetOrdering(S))
  <2>1. F # {}
    OBVIOUS
  <2> HIDE DEF F
  <2> QED BY <1>1, <2>1, FS_StrictSubsetOrderingWellFounded, WFMin
<1>3. PICK x \in S : \A y \in S : ~(<<Below(S, y), Below(S, x)>> \in StrictSubsetOrdering(S))
  BY <1>2
<1>4. ASSUME NEW y \in S, y < x PROVE FALSE
  <2>0. \A b \in S : b < y => b < x
    <3>1. \A b \in S : b \in Nat
      OBVIOUS
    <3> QED
      BY <1>4, <3>1
  <2>1. Below(S, y) \subseteq Below(S, x) /\ y \in Below(S, x) /\ y \notin Below(S, y)
    <3>1. y \in Nat /\ ~(y < y)
      OBVIOUS
    <3> QED
      BY <1>4, <2>0, <3>1 DEF Below
  <2>2. Below(S, y) \in SUBSET S /\ Below(S, x) \in SUBSET S
    BY DEF Below
  <2>3. Below(S, y) # Below(S, x)
    BY <2>1
  <2>4. <<Below(S, y), Below(S, x)>> \in StrictSubsetOrdering(S)
    BY <2>1, <2>2, <2>3 DEF StrictSubsetOrdering
  <2> QED BY <1>3, <2>4
<1> QED
  BY <1>4

(* The elements below are fewer than all, and fewer for a smaller one.     *)
LEMMA RankIsBelow ==
  ASSUME NEW S \in SUBSET Nat, IsFiniteSet(S)
  PROVE  /\ \A c \in S : Cardinality(Below(S, c)) \in Nat /\ Cardinality(Below(S, c)) < Cardinality(S)
         /\ \A b, c \in S : b < c => Cardinality(Below(S, b)) < Cardinality(Below(S, c))
<1>1. \A c \in S : IsFiniteSet(Below(S, c))
  BY FS_Subset DEF Below
<1>2. ASSUME NEW c \in S, NEW T \in SUBSET S, IsFiniteSet(T), Below(S, c) \subseteq T, c \in T
      PROVE  Cardinality(Below(S, c)) < Cardinality(T)
  <2>1. Cardinality(Below(S, c)) <= Cardinality(T) /\ (Cardinality(T) = Cardinality(Below(S, c)) => T = Below(S, c))
    BY <1>2, FS_Subset
  <2>2. T # Below(S, c)
    BY <1>2 DEF Below
  <2> QED
    BY <1>1, <1>2, <2>1, <2>2, FS_CardinalityType
<1>3. \A c \in S : Cardinality(Below(S, c)) \in Nat /\ Cardinality(Below(S, c)) < Cardinality(S)
  BY <1>1, <1>2, FS_CardinalityType DEF Below
<1>4. ASSUME NEW b \in S, NEW c \in S, b < c PROVE Cardinality(Below(S, b)) < Cardinality(Below(S, c))
  <2>1. \A a \in S : a < b => a < c
    <3>1. \A a \in S : a \in Nat
      OBVIOUS
    <3> QED
      BY <1>4, <3>1
  <2>2. Below(S, b) \subseteq Below(S, c) /\ b \in Below(S, c) /\ Below(S, c) \in SUBSET S
    BY <1>4, <2>1 DEF Below
  <2> QED
    BY <1>1, <1>2, <2>2
<1> QED
  BY <1>3, <1>4

(* Those with at most n - 2 others below them are too few to be all, and   *)
(* the least of the rest is the n-th.                                      *)
LEMMA NthExists ==
  ASSUME NEW S \in SUBSET Nat, IsFiniteSet(S), NEW n \in 1 .. Cardinality(S)
  PROVE  Nth(S, n) \in S
<1> DEFINE rank == [c \in S |-> Cardinality(Below(S, c))]
           T == {c \in S : rank[c] >= n - 1}
           L == {c \in S : rank[c] < n - 1}
<1>1. rank \in [S -> Nat]
  BY RankIsBelow
<1>2. \A b, c \in S : b < c => rank[b] < rank[c]
  BY RankIsBelow
<1>3. n \in Nat /\ n >= 1 /\ n <= Cardinality(S) /\ Cardinality(S) \in Nat
  BY FS_CardinalityType
<1>4. \A c \in S : rank[c] = Cardinality(Below(S, c))
  OBVIOUS
<1> HIDE DEF rank
<1>5. IsFiniteSet(L) /\ Cardinality(L) \in Nat /\ Cardinality(L) <= n - 1
  <2> DEFINE f == [c \in L |-> rank[c]]
  <2>1. \A b, c \in L : f[b] = f[c] => b = c
    BY <1>1, <1>2
  <2>2. f \in [L -> 0 .. n - 2]
    <3>1. ASSUME NEW c \in L PROVE rank[c] \in 0 .. n - 2
      <4>1. rank[c] \in Nat /\ rank[c] < n - 1
        BY <1>1
      <4> QED
        BY <1>3, <4>1
    <3> QED
      BY <3>1
  <2>3. f \in Injection(L, 0 .. n - 2)
    BY <2>1, <2>2, Zenon DEF Injection, IsInjective
  <2>4. IsFiniteSet(0 .. n - 2) /\ Cardinality(0 .. n - 2) = n - 1
    <3>1. n - 2 \in Int /\ 0 \in Int
      BY <1>3
    <3>2. IsFiniteSet(0 .. n - 2) /\ Cardinality(0 .. n - 2) = IF 0 > n - 2 THEN 0 ELSE n - 2 - 0 + 1
      BY <3>1, FS_Interval
    <3> QED
      BY <1>3, <3>2
  <2> HIDE DEF f, L
  <2>5. IsFiniteSet(L) /\ Cardinality(L) <= Cardinality(0 .. n - 2)
    BY <2>3, <2>4, FS_Injection
  <2> QED
    BY <2>4, <2>5, FS_CardinalityType
<1>6. T # {} /\ T \in SUBSET Nat /\ IsFiniteSet(T)
  <2>1. IsFiniteSet(T)
    BY FS_Subset
  <2>2. T = {} => L = S
    <3>1. \A c \in S : rank[c] \in Nat /\ (c \in T \/ c \in L)
      BY <1>1, <1>3
    <3> QED
      BY <3>1
  <2>3. L # S
    BY <1>3, <1>5
  <2> QED
    BY <2>1, <2>2, <2>3
<1>7. PICK c \in T : \A y \in T : c <= y
  <2> HIDE DEF T
  <2> QED BY <1>6, LeastExists
<1>8. Below(S, c) \subseteq L
  <2>1. ASSUME NEW b \in S, b < c PROVE b \in L
    <3>1. b \notin T
      BY <1>7, <2>1
    <3> QED BY <1>1, <1>3, <3>1
  <2> QED BY <2>1 DEF Below
<1>9. rank[c] = n - 1
  <2>1. Cardinality(Below(S, c)) <= Cardinality(L)
    <3> HIDE DEF L
    <3> QED BY <1>5, <1>8, FS_Subset
  <2> QED BY <1>1, <1>3, <1>4, <1>5, <2>1
<1> QED
  <2>1. c \in S /\ Cardinality({b \in S : b < c}) = n - 1
    BY <1>4, <1>9 DEF Below
  <2> QED BY <2>1 DEF Nth

-----------------------------------------------------------------------------
Work == [at : {"waiting", "sending"}, chunk : Numbers]

(* A lane rests or has a chunk of a session to send.                       *)
LanesTyped(lanes, use) ==
  /\ lanes \in [Ids -> [LaneIds -> Work \union {Resting}]]
  /\ \A t \in Ids : \A l \in LaneIds : lanes[t][l] # Resting => use[t] \in Ids

(* A transfer that sends or is being completed has a session, and the      *)
(* object of an asset about to be stored is composed.                      *)
CallsHaveSessions ==
  /\ flow # "idle" => transfer \in Ids
  /\ flow \in {"asking", "preparing"} => kept \in Ids
  /\ flow \in {"sending", "completing"} => using[transfer] \in Ids
  /\ flow \in {"asking", "opening", "preparing", "sending"} => call[transfer] = "none"
  /\ \A t \in Ids : call[t] # "none" => using[t] \in Ids /\ t <= transfer
  /\ \A t \in Ids : call[t] = "storing" => using[t] \in composed

TypeInv == TypeOK /\ CallsHaveSessions

LEMMA InitTypeInv == Init => TypeInv
<1> SUFFICES ASSUME Init PROVE TypeInv
  OBVIOUS
<1>1. LanesTyped(lane, using)
  BY DEF Init, LanesTyped, Resting
<1>2. /\ transfer \in 0 .. Transfers
      /\ kept \in 0 .. Transfers
      /\ using \in [Ids -> 0 .. Transfers]
      /\ pauses \in 0 .. Pauses
      /\ cancel \in 0 .. Transfers
  BY TransfersAssumption, PausesAssumption DEF Init
<1>3. /\ pending \in [Ids -> SUBSET Numbers]
      /\ session \in [Ids -> {"none", "pending", "completed", "cancelled", "expired"}]
      /\ call \in [Ids -> Calling \union {"none"}]
  BY DEF Init
<1>4. TypeOK
  BY <1>1, <1>2, <1>3 DEF Init, TypeOK, LanesTyped, Work
<1>5. CallsHaveSessions
  BY DEF Init, CallsHaveSessions
<1> QED
  BY <1>4, <1>5 DEF TypeInv

LEMMA WokenIsTyped ==
  ASSUME NEW lanes, NEW use, LanesTyped(lanes, use)
  PROVE  LanesTyped(Woken(lanes), use)
<1>1. ASSUME NEW t \in Ids, NEW l \in LaneIds
      PROVE  /\ Woken(lanes)[t][l] \in Work \union {Resting}
             /\ Woken(lanes)[t][l] # Resting => use[t] \in Ids
  <2>1. lanes[t][l] \in Work \union {Resting} /\ (lanes[t][l] # Resting => use[t] \in Ids)
    BY DEF LanesTyped
  <2>2. Woken(lanes)[t][l] = IF lanes[t][l].at = "waiting"
                               THEN [at |-> "sending", chunk |-> lanes[t][l].chunk] ELSE lanes[t][l]
    BY DEF Woken
  <2> QED
    BY <2>1, <2>2 DEF Work, Resting
<1>2. Woken(lanes) \in [Ids -> [LaneIds -> Work \union {Resting}]]
  BY <1>1 DEF Woken
<1> QED
  BY <1>1, <1>2 DEF LanesTyped

LEMMA OneLaneIsTyped ==
  ASSUME NEW lanes, NEW use, LanesTyped(lanes, use), NEW t \in Ids, NEW l \in LaneIds,
         NEW new \in Work \union {Resting}, new = Resting \/ use[t] \in Ids
  PROVE  LanesTyped([lanes EXCEPT ![t][l] = new], use)
BY DEF LanesTyped

(* The chunks a transfer sets out with are numbers of chunks.              *)
LEMMA PrepareIsTyped ==
  ASSUME TypeInv, NEW s \in Ids, transfer \in Ids, Prepare(s)
  PROVE  /\ LanesTyped(lane', using')
         /\ using' = [using EXCEPT ![transfer] = s]
         /\ pending' \in [Ids -> SUBSET Numbers]
         /\ flow' = "sending"
<1> DEFINE missing == {c \in Numbers : <<s, c>> \notin parts}
           first == {c \in missing : Cardinality({b \in missing : b < c}) < Lanes}
           own == [l \in LaneIds |-> IF l <= Cardinality(first) THEN Request(Nth(missing, l)) ELSE Resting]
<1>1. /\ using' = [using EXCEPT ![transfer] = s]
      /\ pending' = [pending EXCEPT ![transfer] = missing \ first]
      /\ lane' = [lane EXCEPT ![transfer] = own]
      /\ flow' = "sending"
  BY DEF Prepare
<1>2. missing \in SUBSET Nat /\ missing \subseteq Numbers /\ first \subseteq missing
  BY DEF Numbers
<1>3. IsFiniteSet(missing) /\ IsFiniteSet(first) /\ Cardinality(first) <= Cardinality(missing)
  <2>1. IsFiniteSet(Numbers)
    BY ChunksAssumption, FS_Interval DEF Numbers
  <2>2. IsFiniteSet(missing)
    BY <2>1, FS_Subset
  <2> HIDE DEF missing, first
  <2> QED
    BY <1>2, <2>2, FS_Subset
<1> HIDE DEF first
<1>4. ASSUME NEW l \in LaneIds, l <= Cardinality(first) PROVE Nth(missing, l) \in Numbers
  <2> HIDE DEF missing
  <2>1. Cardinality(missing) \in Nat /\ Cardinality(first) \in Nat
    BY <1>3, FS_CardinalityType
  <2>2. l \in 1 .. Cardinality(missing)
    BY <1>3, <1>4, <2>1, LanesAssumption DEF LaneIds
  <2> QED
    BY <1>2, <1>3, <2>2, NthExists
<1>5. own \in [LaneIds -> Work \union {Resting}]
  <2> HIDE DEF missing
  <2>1. \A c \in Numbers : Request(c) \in Work
    BY DEF Request, Work
  <2> QED
    BY <1>4, <2>1
<1>6. pending' \in [Ids -> SUBSET Numbers]
  <2> HIDE DEF missing
  <2> QED
    BY <1>1, <1>2 DEF TypeInv, TypeOK
<1>7. LanesTyped(lane', using')
  <2> HIDE DEF own
  <2>1. LanesTyped(lane, using) /\ using \in [Ids -> 0 .. Transfers]
    BY DEF TypeInv, TypeOK, LanesTyped, Work
  <2> QED
    BY <1>1, <1>5, <2>1 DEF LanesTyped
<1> QED
  BY <1>1, <1>6, <1>7

(* The end of a transfer leaves a session for the next one, or none.       *)
LEMMA EndIsTyped ==
  ASSUME TypeInv, NEW end \in {"done", "failed"}, NEW lanes, LanesTyped(lanes, using),
         EndTransfer(end, lanes)
  PROVE  /\ LanesTyped(lane', using)
         /\ flow' = end
         /\ kept' \in 0 .. Transfers
         /\ paused' = FALSE /\ shown' = FALSE
<1>1. kept' \in {0, kept}
  BY DEF EndTransfer
<1> QED
  BY <1>1, WokenIsTyped, TransfersAssumption DEF EndTransfer, TypeInv, TypeOK

LEMMA LanesAreTyped == TypeInv => LanesTyped(lane, using)
BY DEF TypeInv, TypeOK, LanesTyped, Work

(* What a step has to leave in order when it touches neither storage nor   *)
(* the server.                                                             *)
LEMMA DialogStepTypes ==
  ASSUME TypeInv,
         UNCHANGED <<events, session, parts, old, composed, assets, call, cancel, cleared, sweep, active>>,
         transfer' \in 0 .. Transfers,
         flow' \in Busy \union {"idle", "done", "failed"},
         renaming' \in BOOLEAN,
         kept' \in 0 .. Transfers,
         using' \in [Ids -> 0 .. Transfers],
         pending' \in [Ids -> SUBSET Numbers],
         LanesTyped(lane', using'),
         paused' \in BOOLEAN,
         shown' \in BOOLEAN,
         pauses' \in 0 .. Pauses
  PROVE  TypeOK'
BY DEF TypeInv, TypeOK, LanesTyped, Work

LEMMA BrowserTypes ==
  ASSUME TypeInv, Start \/ AskStatus \/ Refuse \/ AskChunks \/ MissSession \/ Resume \/ LoseAnswer
  PROVE  TypeInv'
<1>1. /\ TypeOK /\ CallsHaveSessions /\ LanesTyped(lane, using)
      /\ \A s \in Ids : s \in 0 .. Transfers
  BY LanesAreTyped, TransfersAssumption DEF TypeInv, Ids
<1>2. CASE Start
  <2>1. kept' \in 0 .. Transfers /\ (flow' = "asking" => kept' \in Ids) /\ flow' \in Busy
    BY <1>1, <1>2 DEF Start, Offered, Busy, TypeOK, Ids
  <2>2. transfer' = transfer + 1 /\ transfer' \in Ids /\ \A t \in Ids : t <= transfer => t <= transfer' /\ t # transfer'
    BY <1>1, <1>2, TransfersAssumption DEF Start, TypeOK, Ids
  <2>3. flow' \in {"asking", "opening"}
    BY <1>2 DEF Start
  <2>4. UNCHANGED <<events, using, pending, lane, paused, pauses, server, storage>> /\ shown' = FALSE
        /\ renaming' \in BOOLEAN
    BY <1>2 DEF Start
  <2>5. CallsHaveSessions'
    BY <1>1, <2>1, <2>2, <2>3, <2>4 DEF CallsHaveSessions, server, storage
  <2>6. TypeOK'
    BY <1>1, <2>1, <2>2, <2>4, DialogStepTypes, TransfersAssumption
       DEF server, storage, cancelling, sweeping, TypeInv, TypeOK, Ids
  <2> QED
    BY <2>5, <2>6 DEF TypeInv
<1>3. ASSUME transfer \in Ids, kept \in Ids, Prepare(kept), call[transfer] = "none",
             UNCHANGED <<events, transfer, renaming, kept, paused, shown, pauses, server, storage>>
      PROVE  TypeInv'
  <2>1. /\ LanesTyped(lane', using')
        /\ using' = [using EXCEPT ![transfer] = kept]
        /\ pending' \in [Ids -> SUBSET Numbers]
        /\ flow' = "sending"
    BY <1>3, PrepareIsTyped
  <2>2. using' \in [Ids -> 0 .. Transfers] /\ using'[transfer] = kept
        /\ \A t \in Ids : t # transfer => using'[t] = using[t]
    BY <1>1, <1>3, <2>1 DEF TypeOK
  <2>3. CallsHaveSessions'
    BY <1>1, <1>3, <2>1, <2>2 DEF CallsHaveSessions, server, storage
  <2>4. TypeOK'
    BY <1>1, <1>3, <2>1, <2>2, DialogStepTypes
       DEF server, storage, cancelling, sweeping, TypeInv, TypeOK, Busy
  <2> QED
    BY <2>3, <2>4 DEF TypeInv
<1>4. CASE AskStatus
  <2>1. CASE Prepare(kept) /\ UNCHANGED kept
    BY <1>1, <1>3, <1>4, <2>1 DEF AskStatus, CallsHaveSessions
  <2>2. CASE flow' = "opening" /\ kept' = 0 /\ UNCHANGED <<using, pending, lane>>
    <3>1. UNCHANGED <<events, transfer, renaming, paused, shown, pauses, server, storage>> /\ flow = "asking"
      BY <1>4 DEF AskStatus
    <3>2. CallsHaveSessions'
      BY <1>1, <2>2, <3>1 DEF CallsHaveSessions, server, storage
    <3>3. TypeOK'
      BY <1>1, <2>2, <3>1, DialogStepTypes, TransfersAssumption
         DEF server, storage, cancelling, sweeping, TypeInv, TypeOK, Busy
    <3> QED
      BY <3>2, <3>3 DEF TypeInv
  <2> QED
    BY <1>4, <2>1, <2>2 DEF AskStatus
<1>5. CASE AskChunks
  BY <1>1, <1>3, <1>5 DEF AskChunks, CallsHaveSessions
<1>6. ASSUME flow # "idle", NEW end \in {"done", "failed"}, EndTransfer(end, lane),
             UNCHANGED <<events, plan, server, storage>>
      PROVE  TypeInv'
  <2>1. LanesTyped(lane', using) /\ flow' = end /\ kept' \in 0 .. Transfers /\ paused' = FALSE /\ shown' = FALSE
    BY <1>1, <1>6, EndIsTyped
  <2>2. CallsHaveSessions'
    BY <1>1, <1>6, <2>1 DEF CallsHaveSessions, server, storage, plan
  <2>3. TypeOK'
    <3>1. UNCHANGED <<events, transfer, renaming, using, pending, pauses>>
      BY <1>6 DEF plan
    <3> QED
      BY <1>1, <1>6, <2>1, <3>1, DialogStepTypes
         DEF server, storage, cancelling, sweeping, TypeInv, TypeOK, Busy
  <2> QED
    BY <2>2, <2>3 DEF TypeInv
<1>7. CASE Refuse
  BY <1>6, <1>7 DEF Refuse
<1>8. CASE MissSession
  BY <1>6, <1>8 DEF MissSession
<1>9. CASE LoseAnswer
  BY <1>6, <1>9 DEF LoseAnswer
<1>10. CASE Resume
  <2>1. LanesTyped(lane', using) /\ paused' = FALSE /\ shown' = FALSE /\ UNCHANGED <<events, plan, flow, kept, server, storage>>
    BY <1>1, <1>10, WokenIsTyped DEF Resume
  <2>2. CallsHaveSessions'
    BY <1>1, <2>1 DEF CallsHaveSessions, server, storage, plan
  <2>3. TypeOK'
    BY <1>1, <2>1, DialogStepTypes DEF plan, server, storage, cancelling, sweeping, TypeInv, TypeOK
  <2> QED
    BY <2>2, <2>3 DEF TypeInv
<1> QED
  BY <1>2, <1>4, <1>5, <1>7, <1>8, <1>9, <1>10

LEMMA OpeningTypes == ASSUME TypeInv, OpenSession PROVE TypeInv'
<1>1. TypeOK /\ CallsHaveSessions /\ LanesTyped(lane, using) /\ transfer \in Ids
  BY LanesAreTyped DEF TypeInv, OpenSession, CallsHaveSessions
<1>2. /\ session' = [session EXCEPT ![transfer] = "pending"]
      /\ UNCHANGED <<events, plan, storage, assets, call, cancelling, sweeping>>
  BY DEF OpenSession
<1>3. /\ LanesTyped(lane', using)
      /\ kept' \in 0 .. Transfers
      /\ \/ flow' = "preparing" /\ kept' = transfer
         \/ flow' = "failed"
      /\ paused' \in BOOLEAN /\ shown' \in BOOLEAN
  <2>1. CASE flow' = "preparing" /\ kept' = transfer /\ UNCHANGED <<lane, paused, shown>>
    BY <1>1, <2>1, TransfersAssumption DEF TypeOK, Ids
  <2>2. CASE EndTransfer("failed", lane)
    BY <1>1, <2>2, EndIsTyped
  <2> QED
    BY <2>1, <2>2 DEF OpenSession
<1>4. session' \in [Ids -> {"none", "pending", "completed", "cancelled", "expired"}]
  BY <1>1, <1>2 DEF TypeOK
<1>5. TypeOK'
  BY <1>1, <1>2, <1>3, <1>4 DEF plan, storage, cancelling, sweeping, TypeOK, LanesTyped, Work, Busy
<1>6. CallsHaveSessions'
  BY <1>1, <1>2, <1>3 DEF OpenSession, plan, storage, CallsHaveSessions
<1> QED
  BY <1>5, <1>6 DEF TypeInv

LEMMA AskCompletionTypes == ASSUME TypeInv, AskCompletion PROVE TypeInv'
<1>1. TypeOK /\ CallsHaveSessions /\ transfer \in Ids /\ using[transfer] \in Ids
  BY DEF TypeInv, AskCompletion, CallsHaveSessions
<1>2. /\ flow' = "completing"
      /\ call' = [call EXCEPT ![transfer] = "checking"]
      /\ UNCHANGED <<events, plan, kept, lane, paused, shown, session, storage, assets, cancelling, sweeping>>
  BY DEF AskCompletion
<1>3. call' \in [Ids -> Calling \union {"none"}]
  BY <1>1, <1>2 DEF TypeOK, Calling
<1>4. TypeOK'
  BY <1>1, <1>2, <1>3 DEF plan, storage, cancelling, sweeping, TypeOK, Busy
<1>5. transfer <= transfer
  BY <1>1, TransfersAssumption DEF Ids
<1>6. \A t \in Ids : call'[t] = IF t = transfer THEN "checking" ELSE call[t]
  BY <1>1, <1>2 DEF TypeOK
<1>7. CallsHaveSessions'
  BY <1>1, <1>2, <1>5, <1>6 DEF plan, storage, CallsHaveSessions
<1> QED
  BY <1>4, <1>7 DEF TypeInv

(* Chunks that are stored belong to a session.                             *)
LEMMA StoringTypes ==
  ASSUME TypeInv,
         \/ Pause \/ Reload
         \/ \E t \in Ids, l \in LaneIds : StoreChunk(t, l) \/ FailChunk(t, l)
  PROVE  TypeInv'
<1>1. TypeOK /\ CallsHaveSessions /\ LanesTyped(lane, using)
  BY LanesAreTyped DEF TypeInv
<1>2. ASSUME UNCHANGED <<events, transfer, renaming, using, server, composed>>,
             \/ UNCHANGED <<flow, kept, paused>> /\ shown' = shown
             \/ UNCHANGED <<flow, kept>> /\ paused' = TRUE /\ shown' = TRUE
             \/ /\ flow # "idle" /\ flow' = "failed" /\ kept' \in 0 .. Transfers
                /\ paused' = FALSE /\ shown' = FALSE,
             pauses' \in 0 .. Pauses,
             pending' \in [Ids -> SUBSET Numbers],
             NEW new \in SUBSET (Ids \X Numbers), Store(new) \/ UNCHANGED <<parts, old>>,
             LanesTyped(lane', using)
      PROVE  TypeInv'
  <2>1. parts' \subseteq Ids \X Numbers /\ old' \subseteq parts'
    BY <1>1, <1>2 DEF TypeOK, Store
  <2>2. TypeOK'
    BY <1>1, <1>2, <2>1 DEF server, cancelling, sweeping, TypeOK, LanesTyped, Work
  <2>3. CallsHaveSessions'
    BY <1>1, <1>2 DEF server, CallsHaveSessions
  <2> QED
    BY <2>2, <2>3 DEF TypeInv
<1>3. ASSUME NEW t \in Ids, NEW l \in LaneIds, lane[t][l].at = "sending"
      PROVE  using[t] \in Ids /\ lane[t][l].chunk \in Numbers /\ lane[t][l] \in Work
  <2>1. lane[t][l] \in Work \union {Resting} /\ (lane[t][l] # Resting => using[t] \in Ids)
    BY <1>1 DEF LanesTyped
  <2> QED
    BY <1>3, <2>1 DEF Work, Resting
<1>4. \A stored \in SUBSET UnderWay :
        {<<using[p[1]], lane[p[1]][p[2]].chunk>> : p \in stored} \in SUBSET (Ids \X Numbers)
  BY <1>3 DEF UnderWay
<1>5. ASSUME NEW end \in {"done", "failed"}, NEW lanes, LanesTyped(lanes, using), EndTransfer(end, lanes)
      PROVE  /\ LanesTyped(lane', using)
             /\ flow' = end /\ kept' \in 0 .. Transfers /\ paused' = FALSE /\ shown' = FALSE
  BY <1>5, EndIsTyped
<1>6. CASE Pause
  <2>1. PICK new \in SUBSET (Ids \X Numbers) : Store(new)
    BY <1>4, <1>6 DEF Pause
  <2>2. \A t \in Ids : \A l \in LaneIds :
          /\ lane'[t][l] \in Work \union {Resting}
          /\ lane'[t][l] # Resting => using[t] \in Ids
    <3>1. SUFFICES ASSUME NEW t \in Ids, NEW l \in LaneIds
                   PROVE  /\ lane'[t][l] \in Work \union {Resting}
                          /\ lane'[t][l] # Resting => using[t] \in Ids
      OBVIOUS
    <3>2. lane[t][l] \in Work \union {Resting} /\ (lane[t][l] # Resting => using[t] \in Ids)
      BY <1>1 DEF LanesTyped
    <3>3. lane'[t][l] = IF lane[t][l].at = "sending"
                          THEN [at |-> "waiting", chunk |-> lane[t][l].chunk] ELSE lane[t][l]
      BY <1>6 DEF Pause, UnderWay
    <3> QED
      BY <1>3, <3>2, <3>3 DEF Work
  <2>3. LanesTyped(lane', using)
    <3>1. lane' \in [Ids -> [LaneIds -> Work \union {Resting}]]
      BY <1>6, <2>2 DEF Pause
    <3> QED
      BY <2>2, <3>1 DEF LanesTyped
  <2>4. /\ UNCHANGED <<events, transfer, renaming, flow, kept, using, pending, server, composed>>
        /\ paused' = TRUE /\ shown' = TRUE /\ pauses' \in 0 .. Pauses
    BY <1>1, <1>6, PausesAssumption DEF Pause, TypeOK
  <2>5. pending' \in [Ids -> SUBSET Numbers]
    BY <1>1, <2>4 DEF TypeOK
  <2> QED
    BY <1>2, <2>1, <2>3, <2>4, <2>5
<1>7. CASE Reload
  <2> DEFINE rest == [t \in Ids |-> [l \in LaneIds |-> Resting]]
  <2>1. PICK new \in SUBSET (Ids \X Numbers) : Store(new)
    BY <1>4, <1>7 DEF Reload
  <2>2. LanesTyped(rest, using)
    BY DEF LanesTyped
  <2>3. EndTransfer("failed", rest) /\ flow # "idle" /\ UNCHANGED <<events, plan, server, composed>>
    BY <1>7 DEF Reload, Busy
  <2> HIDE DEF rest
  <2>4. /\ LanesTyped(lane', using) /\ flow' = "failed" /\ kept' \in 0 .. Transfers
        /\ paused' = FALSE /\ shown' = FALSE
    BY <1>5, <2>2, <2>3
  <2>5. /\ pauses' \in 0 .. Pauses /\ pending' \in [Ids -> SUBSET Numbers]
        /\ UNCHANGED <<transfer, renaming, using>>
    BY <1>1, <2>3 DEF plan, TypeOK
  <2> QED
    BY <1>2, <2>1, <2>3, <2>4, <2>5
<1>8. ASSUME NEW t \in Ids, NEW l \in LaneIds, StoreChunk(t, l)
      PROVE  TypeInv'
  <2> DEFINE new == {<<using[t], lane[t][l].chunk>>}
  <2>1. using[t] \in Ids /\ new \in SUBSET (Ids \X Numbers) /\ Store(new)
    BY <1>3, <1>8 DEF StoreChunk
  <2>2. UNCHANGED <<events, transfer, renaming, flow, kept, using, paused, shown, pauses, server, composed>>
    BY <1>8 DEF StoreChunk
  <2>3. LanesTyped(lane', using) /\ pending' \in [Ids -> SUBSET Numbers]
    <3>1. CASE pending[t] = {}
      <4>1. lane' = [lane EXCEPT ![t][l] = Resting] /\ UNCHANGED pending
        BY <1>8, <3>1 DEF StoreChunk
      <4> QED
        BY <1>1, <4>1, OneLaneIsTyped DEF TypeOK
    <3>2. CASE pending[t] # {}
      <4> DEFINE next == Nth(pending[t], 1)
      <4>1. lane' = [lane EXCEPT ![t][l] = Request(next)] /\ pending' = [pending EXCEPT ![t] = @ \ {next}]
        BY <1>8, <3>2 DEF StoreChunk
      <4>2. next \in Numbers
        <5>1. pending[t] \subseteq Numbers
          BY <1>1 DEF TypeOK
        <5>2. IsFiniteSet(pending[t]) /\ pending[t] \in SUBSET Nat
          <6>1. IsFiniteSet(Numbers) /\ Numbers \subseteq Nat
            BY ChunksAssumption, FS_Interval DEF Numbers
          <6> QED
            BY <5>1, <6>1, FS_Subset
        <5>3. 1 \in 1 .. Cardinality(pending[t])
          BY <3>2, <5>2, FS_CardinalityType, FS_EmptySet
        <5> QED
          BY <5>1, <5>2, <5>3, NthExists
      <4> HIDE DEF next
      <4>3. Request(next) \in Work
        BY <4>2 DEF Request, Work
      <4> QED
        BY <1>1, <2>1, <4>1, <4>3, OneLaneIsTyped DEF TypeOK
    <3> QED
      BY <3>1, <3>2
  <2>4. pauses' \in 0 .. Pauses
    BY <1>1, <2>2 DEF TypeOK
  <2> QED
    BY <1>2, <2>1, <2>2, <2>3, <2>4
<1>9. ASSUME NEW t \in Ids, NEW l \in LaneIds, FailChunk(t, l)
      PROVE  TypeInv'
  <2> DEFINE new == {<<using[t], lane[t][l].chunk>>}
             left == [lane EXCEPT ![t][l] = Resting]
  <2>1. new \in SUBSET (Ids \X Numbers) /\ (Store(new) \/ UNCHANGED <<parts, old>>)
    BY <1>3, <1>9 DEF FailChunk
  <2>2. LanesTyped(left, using)
    BY <1>1, OneLaneIsTyped
  <2>3. \/ flow = "sending" /\ EndTransfer("failed", left)
        \/ GoOn(left)
    BY <1>9 DEF FailChunk
  <2> HIDE DEF left, new
  <2>4. /\ LanesTyped(lane', using)
        /\ \/ UNCHANGED <<flow, kept, paused, shown>>
           \/ /\ flow # "idle" /\ flow' = "failed" /\ kept' \in 0 .. Transfers
              /\ paused' = FALSE /\ shown' = FALSE
    BY <1>5, <2>2, <2>3 DEF GoOn
  <2>5. UNCHANGED <<events, plan, server, composed>>
    BY <1>9 DEF FailChunk
  <2>6. /\ pauses' \in 0 .. Pauses /\ pending' \in [Ids -> SUBSET Numbers]
        /\ UNCHANGED <<transfer, renaming, using>>
    BY <1>1, <2>5 DEF plan, TypeOK
  <2> QED
    BY <1>2, <2>1, <2>4, <2>5, <2>6
<1> QED
  BY <1>6, <1>7, <1>8, <1>9

(* A completion stores an asset once its object is composed.               *)
LEMMA CompletionTypes ==
  ASSUME TypeInv, NEW t \in Ids, CompleteUpload(t)
  PROVE  TypeInv'
<1>1. TypeOK /\ CallsHaveSessions /\ LanesTyped(lane, using)
  BY LanesAreTyped DEF TypeInv
<1>2. UNCHANGED <<events, plan, cancelling, sweeping>>
  BY DEF CompleteUpload
<1>3. PICK step \in Calling \union {"none"} : call' = [call EXCEPT ![t] = step]
  BY Zenon DEF CompleteUpload, CheckSession, Compose, StoreAsset, CloseSession, ClearChunks, Raise, Goto, Calling
<1>4. call[t] # "none" /\ using[t] \in Ids /\ t <= transfer
  <2>1. call[t] # "none"
    BY DEF CompleteUpload, CheckSession, Compose, StoreAsset, CloseSession, ClearChunks, Raise, Calling
  <2> QED
    BY <1>1, <2>1 DEF CallsHaveSessions
<1>5. /\ composed' \in {composed, composed \union {using[t]}}
      /\ step = "storing" => using[t] \in composed'
      /\ assets' = assets \/ (assets' = assets \union {using[t]} /\ call[t] = "storing")
      /\ \/ session' = session
         \/ session' = [session EXCEPT ![using[t]] = IF @ = "pending" THEN "completed" ELSE @]
      /\ UNCHANGED <<parts, old>> \/ DeleteChunks(using[t])
  <2>1. step = call'[t]
    BY <1>1, <1>3 DEF TypeOK
  <2>2. CASE CheckSession(t)
    <3>1. UNCHANGED <<session, storage, assets>>
      BY <2>2 DEF CheckSession
    <3>2. call'[t] = "storing" => using[t] \in composed
      BY <1>1, <2>2 DEF CheckSession, Goto, TypeOK
    <3> QED
      BY <2>1, <3>1, <3>2 DEF storage
  <2>3. CASE Compose(t)
    BY <1>1, <2>1, <2>3 DEF Compose, Goto, TypeOK
  <2>4. CASE StoreAsset(t) \/ CloseSession(t) \/ ClearChunks(t) \/ Raise(t)
    <3>1. call'[t] # "storing"
      BY <1>1, <2>4 DEF StoreAsset, CloseSession, ClearChunks, Raise, Goto, TypeOK
    <3>2. UNCHANGED composed
      BY <2>4 DEF StoreAsset, CloseSession, ClearChunks, Raise, storage
    <3>3. assets' = assets \/ (assets' = assets \union {using[t]} /\ call[t] = "storing")
      BY <2>4 DEF StoreAsset, CloseSession, ClearChunks, Raise
    <3>4. \/ session' = session
          \/ session' = [session EXCEPT ![using[t]] = IF @ = "pending" THEN "completed" ELSE @]
      BY <2>4 DEF StoreAsset, CloseSession, ClearChunks, Raise
    <3>5. UNCHANGED <<parts, old>> \/ DeleteChunks(using[t])
      BY <2>4 DEF StoreAsset, CloseSession, ClearChunks, Raise, storage
    <3> QED
      BY <2>1, <3>1, <3>2, <3>3, <3>4, <3>5
  <2> QED
    BY <2>2, <2>3, <2>4 DEF CompleteUpload
<1>6. /\ LanesTyped(lane', using)
      /\ \/ UNCHANGED <<flow, kept, paused, shown>>
         \/ /\ flow = "completing" /\ flow' \in {"done", "failed"} /\ kept' \in 0 .. Transfers
            /\ paused' = FALSE /\ shown' = FALSE
  <2>1. \/ GoOn(lane)
        \/ flow = "completing" /\ (EndTransfer("done", lane) \/ EndTransfer("failed", lane))
    BY DEF CompleteUpload, CheckSession, Compose, StoreAsset, CloseSession, ClearChunks, Raise, Answer
  <2>2. GoOn(lane) => LanesTyped(lane', using) /\ UNCHANGED <<flow, kept, paused, shown>>
    BY <1>1 DEF GoOn
  <2> QED
    BY <1>1, <2>1, <2>2, EndIsTyped
<1>7. composed' \subseteq Ids /\ assets' \subseteq composed'
  <2>1. call[t] = "storing" => using[t] \in composed
    BY <1>1 DEF CallsHaveSessions
  <2> QED
    BY <1>1, <1>4, <1>5, <2>1 DEF TypeOK
<1>8. parts' \subseteq Ids \X Numbers /\ old' \subseteq parts'
  BY <1>1, <1>5 DEF TypeOK, DeleteChunks
<1>9. session' \in [Ids -> {"none", "pending", "completed", "cancelled", "expired"}]
  BY <1>1, <1>5 DEF TypeOK
<1>10. call' \in [Ids -> Calling \union {"none"}]
  BY <1>1, <1>3 DEF TypeOK
<1>11. TypeOK'
  BY <1>1, <1>2, <1>6, <1>7, <1>8, <1>9, <1>10
     DEF plan, cancelling, sweeping, TypeOK, LanesTyped, Work
<1>12. CallsHaveSessions'
  <2>1. \A u \in Ids : call'[u] = IF u = t THEN step ELSE call[u]
    BY <1>1, <1>3 DEF TypeOK
  <2>2. composed \subseteq composed' /\ UNCHANGED <<transfer, using>>
    BY <1>2, <1>5 DEF plan
  <2>3. \A u \in Ids : call'[u] = "storing" => using[u] \in composed'
    BY <1>1, <1>5, <2>1, <2>2 DEF CallsHaveSessions
  <2>4. flow' \in {"asking", "opening", "preparing", "sending"} => transfer # t
    BY <1>1, <1>4, <1>6 DEF CallsHaveSessions
  <2> QED
    BY <1>1, <1>4, <1>6, <2>1, <2>2, <2>3, <2>4 DEF CallsHaveSessions
<1> QED
  BY <1>11, <1>12 DEF TypeInv

LEMMA EndingTypes ==
  ASSUME TypeInv,
         StartCancel \/ ClearCancelled \/ RemoveSession \/ Expire \/ Age \/ ReadActive \/ RemoveUnused
  PROVE  TypeInv'
<1> DEFINE Sessions == {"none", "pending", "completed", "cancelled", "expired"}
<1>1. /\ TypeOK /\ CallsHaveSessions
      /\ UNCHANGED <<events, plan, dialog, assets, call, composed>>
  BY DEF TypeInv, StartCancel, ClearCancelled, RemoveSession, Expire, Age, ReadActive, RemoveUnused,
     server, storage
<1>2. /\ session' \in [Ids -> Sessions]
      /\ cancel' \in 0 .. Transfers /\ cleared' \in BOOLEAN
      /\ sweep' \in BOOLEAN /\ active' \subseteq Ids
      /\ parts' \subseteq Ids \X Numbers /\ old' \subseteq parts'
  <2> USE <1>1 DEF TypeOK, cancelling, sweeping, storage
  <2>1. CASE StartCancel
    <3>1. cancel' \in Ids /\ cleared' = FALSE /\ UNCHANGED <<session, storage, sweeping>>
      BY <2>1 DEF StartCancel
    <3>2. \A s \in Ids : s \in 0 .. Transfers
      BY TransfersAssumption DEF Ids
    <3> QED
      BY <3>1, <3>2
  <2>2. CASE ClearCancelled
    BY <2>2 DEF ClearCancelled, DeleteChunks
  <2>3. CASE RemoveSession
    <3>1. session' = [session EXCEPT ![cancel] = IF @ = "expired" THEN @ ELSE "cancelled"]
      BY <2>3 DEF RemoveSession
    <3>2. session' \in [Ids -> Sessions]
      BY <3>1
    <3> QED
      BY <2>3, <3>2, TransfersAssumption DEF RemoveSession
  <2>4. CASE Expire
    BY <2>4 DEF Expire
  <2>5. CASE Age
    BY <2>5 DEF Age, server
  <2>6. CASE ReadActive
    BY <2>6 DEF ReadActive
  <2>7. CASE RemoveUnused
    BY <2>7 DEF RemoveUnused
  <2> QED
    BY <2>1, <2>2, <2>3, <2>4, <2>5, <2>6, <2>7
<1>3. TypeOK'
  BY <1>1, <1>2 DEF plan, dialog, TypeOK
<1>4. CallsHaveSessions'
  BY <1>1 DEF plan, dialog, CallsHaveSessions
<1> QED
  BY <1>3, <1>4 DEF TypeInv

LEMMA TypeInvariant == Spec => []TypeInv
<1>1. TypeInv /\ [Next]_vars => TypeInv'
  <2> SUFFICES ASSUME TypeInv, [Next]_vars PROVE TypeInv'
    OBVIOUS
  <2>1. CASE Next
    BY <2>1, BrowserTypes, OpeningTypes, AskCompletionTypes, StoringTypes, CompletionTypes, EndingTypes
       DEF Next, Browse
  <2>2. CASE UNCHANGED vars
    BY <2>2 DEF vars, plan, dialog, storage, server, cancelling, sweeping, TypeInv, TypeOK,
       CallsHaveSessions
  <2> QED
    BY <2>1, <2>2
<1> QED
  BY <1>1, InitTypeInv, PTL DEF Spec

(* Every variable stays within its type: a lane at work, and a request to  *)
(* complete an upload, has a session, and a transfer sends only chunks     *)
(* there are.                                                              *)
THEOREM TypeCorrect == Spec => []TypeOK
BY TypeInvariant, PTL DEF TypeInv

-----------------------------------------------------------------------------
(* The user has no file renamed.                                           *)
Quiet == "rename" \notin events

Alive(s) == session[s] \in {"pending", "completed"}

(* While the browser waits for every completion, one follows the other, and *)
(* no transfer starts once there is an asset.                              *)
TurnsTaken ==
  /\ \A t \in Ids : call[t] # "none" => t = transfer /\ flow = "completing"
  /\ assets # {} => flow \in {"completing", "done", "failed"} /\ assets = {using[transfer]}

(* While no session is given up, the browser stays with the one it has.    *)
SessionKept ==
  /\ cancel = 0
  /\ flow = "opening" => kept = 0
  /\ flow \in {"sending", "completing"} => using[transfer] = kept
  /\ kept # 0 => \A r \in Ids : Open(r) => r <= kept
  /\ \A t \in Ids : using[t] # 0 => session[using[t]] # "none"

(* A session that is completed has its asset, and a completion past its    *)
(* check has a session.                                                    *)
SessionUsed ==
  /\ \A s \in Ids : session[s] = "completed" => s \in assets
  /\ \A t \in Ids : call[t] \in {"closing", "clearing"} => using[t] \in assets
  /\ \A t \in Ids : call[t] \in {"composing", "storing"} => Alive(using[t])

(* The completions under way are of one session: of the asset when there   *)
(* is one, otherwise of the session the browser has kept.                  *)
OneFile ==
  /\ \A a, b \in assets : a = b
  /\ \A t \in Ids : call[t] # "none" /\ Alive(using[t])
       => (assets = {} /\ using[t] = kept) \/ using[t] \in assets
  /\ assets # {} /\ flow \in {"asking", "preparing", "sending", "completing"} /\ kept # 0 /\ Alive(kept)
       => kept \in assets

SingleInv ==
  Quiet =>
    /\ ~renaming
    /\ ~GoesOn => TurnsTaken
    /\ ~GivesUp => SessionKept /\ SessionUsed /\ OneFile

LEMMA InitSingleInv == Init => SingleInv
BY DEF Init, SingleInv, TurnsTaken, SessionKept, SessionUsed, OneFile, Alive

LEMMA EventsStay == ASSUME [Next]_vars PROVE events' = events
BY DEF Next, vars, Start, Browse, AskStatus, OpenSession, Refuse, AskChunks, MissSession, AskCompletion,
       Pause, Resume, Reload, LoseAnswer, StoreChunk, FailChunk, CompleteUpload, StartCancel,
       ClearCancelled, RemoveSession, Expire, Age, ReadActive, RemoveUnused

(* A renaming is agreed to when a transfer starts.                         *)
LEMMA RenamingStays == ASSUME [Next]_vars, Quiet, ~renaming PROVE ~renaming'
<1>1. ASSUME NEW t \in Ids, CompleteUpload(t) PROVE renaming' = renaming
  BY <1>1 DEF CompleteUpload, plan
<1>2. ASSUME NEW t \in Ids, NEW l \in LaneIds, StoreChunk(t, l) \/ FailChunk(t, l)
      PROVE  renaming' = renaming
  BY <1>2 DEF StoreChunk, FailChunk, plan
<1>3. ASSUME Browse \/ Pause \/ Resume \/ Reload \/ LoseAnswer PROVE renaming' = renaming
  BY <1>3 DEF Browse, AskStatus, OpenSession, Refuse, AskChunks, MissSession, AskCompletion,
     Pause, Resume, Reload, LoseAnswer, plan
<1>4. ASSUME StartCancel \/ ClearCancelled \/ RemoveSession \/ Expire \/ Age \/ ReadActive \/ RemoveUnused
      PROVE renaming' = renaming
  BY <1>4 DEF StartCancel, ClearCancelled, RemoveSession, Expire, Age, ReadActive, RemoveUnused, plan
<1>5. Start => ~renaming'
  BY DEF Start, Quiet
<1>6. UNCHANGED vars => renaming' = renaming
  BY DEF vars, plan
<1> QED
  BY <1>1, <1>2, <1>3, <1>4, <1>5, <1>6 DEF Next

(* The browser stores an asset only through the completion it waits for.   *)
LEMMA TurnsStayTaken ==
  ASSUME TypeInv, [Next]_vars, Quiet, ~GoesOn, TurnsTaken
  PROVE  TurnsTaken'
<1>1. TypeOK /\ CallsHaveSessions
  BY DEF TypeInv
<1>2. \A t \in Ids : flow \notin {"completing"} => call[t] = "none"
  BY DEF TurnsTaken
<1>3. CASE Start
  <2>1. assets' = {} /\ call' = call /\ \A t \in Ids : call[t] = "none"
    BY <1>2, <1>3 DEF Start, Quiet, server, Busy
  <2> QED
    BY <2>1 DEF TurnsTaken
<1>4. CASE AskStatus \/ AskChunks
  <2>1. assets' = {} /\ call' = call /\ \A t \in Ids : call[t] = "none"
    BY <1>2, <1>4 DEF AskStatus, AskChunks, TurnsTaken, server
  <2> QED
    BY <2>1 DEF TurnsTaken
<1>5. CASE OpenSession \/ Refuse \/ MissSession
  <2>1. call' = call /\ (\A t \in Ids : call[t] = "none") /\ assets' = assets /\ assets = {}
    BY <1>2, <1>5 DEF OpenSession, Refuse, MissSession, TurnsTaken, server
  <2> QED
    BY <2>1 DEF TurnsTaken
<1>6. CASE AskCompletion
  <2>1. assets' = {} /\ flow' = "completing" /\ transfer' = transfer
        /\ call' = [call EXCEPT ![transfer] = "checking"] /\ \A t \in Ids : call[t] = "none"
    BY <1>2, <1>6 DEF AskCompletion, TurnsTaken, plan
  <2> QED
    BY <1>1, <2>1 DEF TurnsTaken, TypeOK
<1>7. ASSUME UNCHANGED <<transfer, using, call, assets>>,
             flow' = flow \/ (flow # "completing" /\ flow' = "failed")
      PROVE  TurnsTaken'
  BY <1>2, <1>7 DEF TurnsTaken
<1>8. CASE Pause \/ Resume
  BY <1>7, <1>8 DEF Pause, Resume, plan, server
<1>9. ~Reload /\ ~LoseAnswer
  BY DEF Reload, LoseAnswer, GoesOn
<1>10. ASSUME NEW t \in Ids, NEW l \in LaneIds, StoreChunk(t, l)
       PROVE  TurnsTaken'
  BY <1>7, <1>10 DEF StoreChunk, server
<1>11. ASSUME NEW t \in Ids, NEW l \in LaneIds, FailChunk(t, l)
       PROVE  TurnsTaken'
  <2>1. flow' = flow \/ (flow = "sending" /\ flow' = "failed")
    BY <1>11 DEF FailChunk, EndTransfer, GoOn
  <2> QED
    BY <1>7, <1>11, <2>1 DEF FailChunk, plan, server
<1>12. ASSUME NEW t \in Ids, CompleteUpload(t)
       PROVE  TurnsTaken'
  <2>1. call[t] # "none" /\ t = transfer /\ flow = "completing" /\ UNCHANGED <<transfer, using>>
    BY <1>12 DEF TurnsTaken, CompleteUpload, CheckSession, Compose, StoreAsset, CloseSession,
       ClearChunks, Raise, Calling, plan
  <2>2. assets' \in {assets, assets \union {using[t]}}
    BY <1>12 DEF CompleteUpload, CheckSession, Compose, StoreAsset, CloseSession, ClearChunks, Raise
  <2>3. PICK step : /\ call' = [call EXCEPT ![t] = step]
                    /\ \/ GoOn(lane)
                       \/ step = "none" /\ Answer(t, "done")
                       \/ step = "none" /\ Answer(t, "failed")
    BY <1>12, Zenon DEF CompleteUpload, CheckSession, Compose, StoreAsset, CloseSession, ClearChunks, Raise, Goto
  <2>4. flow' = "completing" \/ (step = "none" /\ flow' \in {"done", "failed"})
    BY <2>1, <2>3 DEF GoOn, Answer, EndTransfer
  <2>5. \A u \in Ids : u # t => call[u] = "none"
    BY <2>1 DEF TurnsTaken
  <2>6. \A u \in Ids : call'[u] = IF u = t THEN step ELSE call[u]
    BY <1>1, <2>3 DEF TypeOK
  <2> QED
    BY <2>1, <2>2, <2>4, <2>5, <2>6 DEF TurnsTaken
<1>13. CASE StartCancel \/ ClearCancelled \/ RemoveSession \/ Expire \/ Age \/ ReadActive \/ RemoveUnused
  BY <1>7, <1>13 DEF StartCancel, ClearCancelled, RemoveSession, Expire, Age, ReadActive, RemoveUnused,
     plan, dialog, server
<1>14. CASE UNCHANGED vars
  BY <1>7, <1>14 DEF vars, plan, dialog, server
<1> QED
  BY <1>3, <1>4, <1>5, <1>6, <1>8, <1>9, <1>10, <1>11, <1>12, <1>13, <1>14 DEF Next, Browse

OneSession == SessionKept /\ SessionUsed /\ OneFile

(* Steps that move neither a session nor a completion.                     *)
LEMMA DialogStaysWithSession ==
  ASSUME OneSession,
         UNCHANGED <<transfer, using, session, assets, call, cancel>>,
         UNCHANGED <<flow, kept>> \/ (flow' = "failed" /\ kept' = kept)
  PROVE  OneSession'
<1>1. UNCHANGED <<transfer, using, session, assets, call, cancel, kept>> /\ (flow' = flow \/ flow' = "failed")
  OBVIOUS
<1>2. SessionKept'
  BY <1>1 DEF OneSession, SessionKept, Open
<1>3. SessionUsed'
  BY <1>1 DEF OneSession, SessionUsed, Alive
<1>4. OneFile'
  BY <1>1 DEF OneSession, OneFile, Alive
<1> QED
  BY <1>2, <1>3, <1>4 DEF OneSession

(* Without an asset every completion that can still succeed is of the kept *)
(* session, which is then the newest that is open.                         *)
LEMMA StartStaysWithSession ==
  ASSUME TypeInv, OneSession, Quiet, Start
  PROVE  OneSession'
<1>1. /\ TypeOK /\ CallsHaveSessions /\ SessionKept /\ SessionUsed /\ OneFile
      /\ \A s \in Ids : s \in Nat /\ s # 0
  BY TransfersAssumption DEF TypeInv, OneSession, Ids
<1>2. /\ assets = {}
      /\ UNCHANGED <<using, session, assets, call, cancel>>
      /\ flow' = IF kept' = 0 THEN "opening" ELSE "asking"
      /\ kept' \in {kept} \union Offered
      /\ transfer' = transfer + 1
  BY DEF Start, Quiet, server, cancelling
<1>3. \A t \in Ids : call[t] # "none" /\ Alive(using[t]) => using[t] = kept /\ Open(kept)
  BY <1>1, <1>2 DEF OneFile, SessionUsed, Alive, Open, CallsHaveSessions
<1>4. kept' = kept \/ ~ \E t \in Ids : call[t] # "none" /\ Alive(using[t])
  <2>1. SUFFICES ASSUME NEW t \in Ids, call[t] # "none", Alive(using[t]), kept' \in Offered
                 PROVE  kept' = kept
    BY <1>2
  <2>2. using[t] = kept /\ Open(kept) /\ kept \in Ids
    BY <1>1, <1>3, <2>1 DEF CallsHaveSessions
  <2>3. kept <= kept' /\ kept' <= kept /\ kept' \in Ids
    BY <1>1, <2>1, <2>2 DEF Offered, SessionKept
  <2> QED
    BY <1>1, <2>2, <2>3
<1>5. kept' # 0 => \A r \in Ids : Open(r) => r <= kept'
  BY <1>1, <1>2 DEF Offered, SessionKept
<1>6. SessionKept'
  BY <1>1, <1>2, <1>5 DEF SessionKept, Open
<1>7. SessionUsed'
  BY <1>1, <1>2 DEF SessionUsed, Alive
<1>8. OneFile'
  BY <1>1, <1>2, <1>3, <1>4 DEF OneFile, Alive
<1> QED
  BY <1>6, <1>7, <1>8 DEF OneSession

(* A transfer sets out with the session that is kept.                      *)
LEMMA PrepareStaysWithSession ==
  ASSUME TypeInv, OneSession, flow \in {"asking", "preparing"}, Open(kept), Prepare(kept),
         UNCHANGED <<transfer, kept, session, assets, call, cancel>>
  PROVE  OneSession'
<1>1. /\ TypeOK /\ CallsHaveSessions /\ SessionKept /\ SessionUsed /\ OneFile /\ transfer \in Ids
      /\ call[transfer] = "none" /\ kept \in Ids
      /\ \A s \in Ids : s # 0
  BY TransfersAssumption DEF TypeInv, OneSession, CallsHaveSessions, Ids
<1>2. flow' = "sending" /\ using' = [using EXCEPT ![transfer] = kept]
  BY DEF Prepare
<1>3. \A t \in Ids : using'[t] = IF t = transfer THEN kept ELSE using[t]
  BY <1>1, <1>2 DEF TypeOK
<1>4. SessionKept'
  <2>1. session[kept] # "none"
    BY DEF Open
  <2>2. \A t \in Ids : using'[t] # 0 => session[using'[t]] # "none"
    BY <1>1, <1>3, <2>1 DEF SessionKept
  <2> QED
    BY <1>1, <1>2, <1>3, <2>2 DEF SessionKept, Open
<1>5. SessionUsed'
  BY <1>1, <1>3 DEF SessionUsed, Alive
<1>6. OneFile'
  BY <1>1, <1>2, <1>3 DEF OneFile, Alive
<1> QED
  BY <1>4, <1>5, <1>6 DEF OneSession

(* The session that is looked up is over: unless the file is an asset, no  *)
(* completion under way can still succeed.                                 *)
LEMMA LookupStaysWithSession ==
  ASSUME TypeInv, OneSession, ~GivesUp, AskStatus \/ AskChunks \/ MissSession
  PROVE  OneSession'
<1>1. CASE Prepare(kept) /\ Open(kept) /\ kept' = kept
  BY <1>1, PrepareStaysWithSession DEF AskStatus, AskChunks, MissSession, server, plan, cancelling,
     EndTransfer
<1>2. CASE AskStatus /\ ~(Prepare(kept) /\ Open(kept) /\ kept' = kept)
  <2>1. /\ TypeOK /\ CallsHaveSessions /\ SessionKept /\ SessionUsed /\ OneFile
    BY DEF TypeInv, OneSession
  <2>2. /\ ~Open(kept) /\ flow' = "opening" /\ kept' = 0 /\ kept \in Ids
        /\ UNCHANGED <<transfer, using, session, assets, call, cancel>>
    BY <1>2, <2>1 DEF AskStatus, GivesUp, server, cancelling, CallsHaveSessions
  <2>3. \A t \in Ids : call[t] # "none" /\ Alive(using[t]) => using[t] \in assets
    BY <2>1, <2>2 DEF OneFile, SessionUsed, Alive, Open
  <2>4. SessionKept'
    BY <2>1, <2>2 DEF SessionKept, Open
  <2>5. SessionUsed'
    BY <2>1, <2>2 DEF SessionUsed, Alive
  <2>6. OneFile'
    BY <2>1, <2>2, <2>3 DEF OneFile, Alive
  <2> QED
    BY <2>4, <2>5, <2>6 DEF OneSession
<1>3. CASE MissSession
  BY <1>3, DialogStaysWithSession DEF MissSession, EndTransfer, plan, server, cancelling
<1> QED
  BY <1>1, <1>2, <1>3 DEF AskChunks

LEMMA OpeningStaysWithSession ==
  ASSUME TypeInv, SweepInv, OneSession, ~renaming, OpenSession
  PROVE  OneSession'
<1>1. /\ TypeOK /\ CallsHaveSessions /\ SessionKept /\ SessionUsed /\ OneFile
      /\ transfer \in Ids /\ flow = "opening" /\ kept = 0 /\ assets = {}
      /\ \A s \in Ids : s \in Nat /\ s # 0
      /\ transfer \in Nat
  BY TransfersAssumption DEF TypeInv, OneSession, OpenSession, CallsHaveSessions, SessionKept, Ids
<1>2. /\ session[transfer] = "none"
      /\ \A s \in Ids : s > transfer => session[s] = "none"
  BY <1>1 DEF SweepInv, OpenedOnce
<1>3. /\ session' = [session EXCEPT ![transfer] = "pending"]
      /\ UNCHANGED <<transfer, using, assets, call, cancel>>
      /\ \/ flow' = "preparing" /\ kept' = transfer
         \/ flow' = "failed" /\ kept' = 0
  BY <1>1 DEF OpenSession, plan, cancelling, EndTransfer
<1>4. \A s \in Ids : session'[s] = IF s = transfer THEN "pending" ELSE session[s]
  BY <1>1, <1>3 DEF TypeOK
<1>5. \A t \in Ids : using[t] \in Ids => using[t] # transfer
  BY <1>1, <1>2 DEF SessionKept
<1>6. \A t \in Ids : call[t] # "none" => using[t] \in Ids /\ ~Alive(using[t])
  BY <1>1 DEF OneFile, CallsHaveSessions
<1>7. SessionKept'
  <2>1. \A t \in Ids : using[t] # 0 => using[t] \in Ids
    BY <1>1, TransfersAssumption DEF TypeOK, Ids
  <2>2. \A t \in Ids : using[t] # 0 => session'[using[t]] # "none"
    BY <1>1, <1>4, <2>1 DEF SessionKept
  <2>3. \A r \in Ids : session'[r] = "pending" => r <= transfer
    BY <1>1, <1>2, <1>4
  <2> QED
    BY <1>1, <1>3, <2>2, <2>3 DEF SessionKept, Open
<1>8. \A t \in Ids : call[t] # "none" => session'[using[t]] = session[using[t]]
  BY <1>4, <1>5, <1>6
<1>9. SessionUsed'
  <2>1. \A t \in Ids : call[t] \notin {"composing", "storing"}
    BY <1>1, <1>6 DEF SessionUsed
  <2> QED
    BY <1>1, <1>3, <1>4, <2>1 DEF SessionUsed
<1>10. OneFile'
  BY <1>1, <1>3, <1>6, <1>8 DEF OneFile, Alive
<1> QED
  BY <1>7, <1>9, <1>10 DEF OneSession

(* A completion that stores the asset is of the one session that can be    *)
(* completed.                                                              *)
LEMMA CompletionStaysWithSession ==
  ASSUME TypeInv, OneSession, NEW t \in Ids, CompleteUpload(t)
  PROVE  OneSession'
<1>1. /\ TypeOK /\ CallsHaveSessions /\ SessionKept /\ SessionUsed /\ OneFile
  BY DEF TypeInv, OneSession
<1>2. UNCHANGED <<events, transfer, using, cancel>>
  BY DEF CompleteUpload, plan, cancelling
<1>3. PICK step \in Calling \union {"none"} : call' = [call EXCEPT ![t] = step]
  BY Zenon DEF CompleteUpload, CheckSession, Compose, StoreAsset, CloseSession, ClearChunks, Raise, Goto, Calling
<1>4. \A u \in Ids : call'[u] = IF u = t THEN step ELSE call[u]
  BY <1>1, <1>3 DEF TypeOK
<1>5. call[t] # "none" /\ using[t] \in Ids
  <2>1. call[t] # "none"
    BY DEF CompleteUpload, CheckSession, Compose, StoreAsset, CloseSession, ClearChunks, Raise, Calling
  <2> QED
    BY <1>1, <2>1 DEF CallsHaveSessions
<1>6. /\ assets' = assets \/ (assets' = assets \union {using[t]} /\ call[t] = "storing")
      /\ \/ session' = session
         \/ /\ session' = [session EXCEPT ![using[t]] = IF @ = "pending" THEN "completed" ELSE @]
            /\ call[t] = "closing"
  BY DEF CompleteUpload, CheckSession, Compose, StoreAsset, CloseSession, ClearChunks, Raise
<1>7. /\ step \in {"composing", "storing"} => Alive(using[t])
      /\ step = "closing" => assets' = assets \union {using[t]}
      /\ step = "clearing" => using[t] \in assets
  <2>1. step = call'[t]
    BY <1>4
  <2>2. CASE CheckSession(t)
    <3>1. call'[t] \in {"storing", "composing", "none"} /\ (call'[t] # "none" => Open(using[t]))
      BY <1>1, <2>2 DEF CheckSession, Goto, TypeOK
    <3> QED
      BY <2>1, <3>1 DEF Open, Alive
  <2>3. CASE Compose(t)
    <3>1. call'[t] \in {"storing", "none"} /\ call[t] = "composing"
      BY <1>1, <2>3 DEF Compose, Goto, TypeOK
    <3> QED
      BY <1>1, <2>1, <3>1 DEF SessionUsed
  <2>4. CASE StoreAsset(t)
    BY <1>1, <2>1, <2>4 DEF StoreAsset, Goto, TypeOK
  <2>5. CASE CloseSession(t)
    BY <1>1, <2>1, <2>5 DEF CloseSession, Goto, TypeOK, SessionUsed
  <2>6. CASE ClearChunks(t) \/ Raise(t)
    BY <1>1, <2>1, <2>6 DEF ClearChunks, Raise, Goto, TypeOK
  <2> QED
    BY <2>2, <2>3, <2>4, <2>5, <2>6 DEF CompleteUpload
<1>8. \/ UNCHANGED <<flow, kept>>
      \/ flow' = "failed" /\ kept' = kept
      \/ flow' = "done" /\ kept' = 0 /\ assets # {}
  <2>1. \/ GoOn(lane)
        \/ Answer(t, "failed")
        \/ Answer(t, "done") /\ (call[t] = "clearing" \/ session[using[t]] = "completed")
    BY DEF CompleteUpload, CheckSession, Compose, StoreAsset, CloseSession, ClearChunks, Raise
  <2>2. call[t] = "clearing" \/ session[using[t]] = "completed" => assets # {}
    BY <1>1, <1>5 DEF SessionUsed
  <2> QED
    BY <2>1, <2>2 DEF GoOn, Answer, EndTransfer
<1>9. /\ assets \subseteq assets'
      /\ \A s \in assets' : s \in assets \/ s = using[t]
      /\ assets' # assets => call[t] = "storing"
  BY <1>6
<1>10. /\ \A s \in Ids : session'[s] # session[s] => session[s] = "pending" /\ session'[s] = "completed" /\ s \in assets
  BY <1>1, <1>5, <1>6 DEF TypeOK, SessionUsed
<1>11. \A s \in Ids : Alive(s) <=> session'[s] \in {"pending", "completed"}
  BY <1>10 DEF Alive
<1>12. SessionKept'
  <2>1. \A s \in Ids : session'[s] = "pending" => session[s] = "pending"
    BY <1>10
  <2>2. \A u \in Ids : using[u] # 0 => session'[using[u]] # "none"
    <3>1. \A u \in Ids : using[u] # 0 => using[u] \in Ids
      BY <1>1, TransfersAssumption DEF TypeOK, Ids
    <3> QED
      BY <1>1, <1>10, <3>1 DEF SessionKept
  <2> QED
    BY <1>1, <1>2, <1>8, <2>1, <2>2 DEF SessionKept, Open
<1>13. SessionUsed'
  <2>1. \A s \in Ids : session'[s] = "completed" => s \in assets'
    BY <1>1, <1>9, <1>10 DEF SessionUsed
  <2>2. \A u \in Ids : call'[u] \in {"closing", "clearing"} => using[u] \in assets'
    BY <1>1, <1>4, <1>7, <1>9 DEF SessionUsed
  <2>3. \A u \in Ids : call'[u] \in {"composing", "storing"} => session'[using[u]] \in {"pending", "completed"}
    <3>1. \A u \in Ids : call'[u] \in {"composing", "storing"} => Alive(using[u]) /\ using[u] \in Ids
      BY <1>1, <1>4, <1>5, <1>7 DEF SessionUsed, CallsHaveSessions
    <3> QED
      BY <1>11, <3>1
  <2> QED
    BY <1>2, <2>1, <2>2, <2>3 DEF SessionUsed, Alive
<1>14. OneFile'
  <2>1. call[t] = "storing" => Alive(using[t])
    BY <1>1 DEF SessionUsed
  <2>2. assets' # assets => assets = {} /\ using[t] = kept /\ assets' = {kept}
    BY <1>1, <1>5, <1>6, <2>1 DEF OneFile
  <2>3. \A a, b \in assets' : a = b
    BY <1>1, <2>2 DEF OneFile
  <2>4. \A u \in Ids : call'[u] # "none" => call[u] # "none" /\ using[u] \in Ids
    BY <1>1, <1>4, <1>5 DEF CallsHaveSessions
  <2>5. \A u \in Ids : call'[u] # "none" /\ session'[using[u]] \in {"pending", "completed"}
          => (assets' = {} /\ using[u] = kept') \/ using[u] \in assets'
    <3>1. SUFFICES ASSUME NEW u \in Ids, call'[u] # "none", session'[using[u]] \in {"pending", "completed"}
                   PROVE  (assets' = {} /\ using[u] = kept') \/ using[u] \in assets'
      OBVIOUS
    <3>2. (assets = {} /\ using[u] = kept) \/ using[u] \in assets
      BY <1>1, <1>11, <2>4, <3>1 DEF OneFile
    <3> QED
      BY <1>8, <1>9, <2>2, <3>2
  <2>6. assets' # {} /\ flow' \in {"asking", "preparing", "sending", "completing"} /\ kept' # 0
          /\ session'[kept'] \in {"pending", "completed"} => kept' \in assets'
    <3>1. SUFFICES ASSUME assets' # {}, flow' \in {"asking", "preparing", "sending", "completing"}, kept' # 0,
                          session'[kept'] \in {"pending", "completed"}
                   PROVE  kept' \in assets'
      OBVIOUS
    <3>2. kept' = kept /\ flow' = flow /\ kept \in Ids
      BY <1>1, <1>8, <3>1, TransfersAssumption DEF TypeOK, Ids
    <3>3. Alive(kept)
      BY <1>11, <3>1, <3>2
    <3> QED
      BY <1>1, <1>9, <2>2, <3>1, <3>2, <3>3 DEF OneFile
  <2> QED
    BY <1>2, <2>3, <2>5, <2>6 DEF OneFile, Alive
<1> QED
  BY <1>12, <1>13, <1>14 DEF OneSession

(* A session that runs out is of no completion under way.                  *)
LEMMA ExpiryStaysWithSession ==
  ASSUME TypeInv, OneSession, ~GivesUp, Expire
  PROVE  OneSession'
<1>1. /\ TypeOK /\ CallsHaveSessions /\ SessionKept /\ SessionUsed /\ OneFile
  BY DEF TypeInv, OneSession
<1>2. PICK s \in Ids : /\ session' = [session EXCEPT ![s] = "expired"]
                       /\ \A t \in Ids : using[t] = s => call[t] = "none"
  BY DEF Expire, GivesUp
<1>3. UNCHANGED <<transfer, flow, kept, using, assets, call, cancel>>
  BY DEF Expire, plan, dialog, cancelling
<1>4. /\ \A r \in Ids : session'[r] = IF r = s THEN "expired" ELSE session[r]
      /\ \A t \in Ids : using[t] # 0 => using[t] \in Ids
      /\ kept # 0 => kept \in Ids
  BY <1>1, <1>2, TransfersAssumption DEF TypeOK, Ids
<1>5. SessionKept'
  BY <1>1, <1>3, <1>4 DEF SessionKept, Open
<1>6. SessionUsed'
  <2>1. \A t \in Ids : call[t] # "none" => using[t] \in Ids /\ using[t] # s
    BY <1>1, <1>2 DEF CallsHaveSessions
  <2> QED
    BY <1>1, <1>3, <1>4, <2>1 DEF SessionUsed, Alive
<1>7. OneFile'
  <2>1. \A r \in Ids : session'[r] \in {"pending", "completed"} => Alive(r)
    BY <1>4 DEF Alive
  <2>2. \A t \in Ids : call[t] # "none" => using[t] \in Ids
    BY <1>1 DEF CallsHaveSessions
  <2> QED
    BY <1>1, <1>3, <1>4, <2>1, <2>2 DEF OneFile, Alive
<1> QED
  BY <1>5, <1>6, <1>7 DEF OneSession

LEMMA SessionStays ==
  ASSUME TypeInv, SweepInv, [Next]_vars, Quiet, ~renaming, ~GivesUp, OneSession
  PROVE  OneSession'
<1>1. CASE Start
  BY <1>1, StartStaysWithSession
<1>2. CASE AskStatus \/ AskChunks \/ MissSession
  BY <1>2, LookupStaysWithSession
<1>3. CASE OpenSession
  BY <1>3, OpeningStaysWithSession
<1>4. CASE Refuse \/ Pause \/ Resume \/ Reload \/ LoseAnswer
  BY <1>4, DialogStaysWithSession
     DEF Refuse, Pause, Resume, Reload, LoseAnswer, EndTransfer, plan, server, cancelling
<1>5. CASE AskCompletion
  <2>1. /\ TypeOK /\ CallsHaveSessions /\ SessionKept /\ SessionUsed /\ OneFile
        /\ flow = "sending" /\ transfer \in Ids /\ using[transfer] = kept /\ kept \in Ids
        /\ \A s \in Ids : s # 0
    BY <1>5, TransfersAssumption DEF TypeInv, OneSession, AskCompletion, CallsHaveSessions, SessionKept, Ids
  <2>2. /\ call' = [call EXCEPT ![transfer] = "checking"]
        /\ flow' = "completing"
        /\ UNCHANGED <<transfer, using, kept, session, assets, cancel>>
    BY <1>5 DEF AskCompletion, plan, cancelling
  <2>3. \A t \in Ids : call'[t] = IF t = transfer THEN "checking" ELSE call[t]
    BY <2>1, <2>2 DEF TypeOK
  <2>4. SessionKept'
    BY <2>1, <2>2 DEF SessionKept, Open
  <2>5. SessionUsed'
    BY <2>1, <2>2, <2>3 DEF SessionUsed, Alive
  <2>6. OneFile'
    BY <2>1, <2>2, <2>3 DEF OneFile, Alive
  <2> QED
    BY <2>4, <2>5, <2>6 DEF OneSession
<1>6. ASSUME NEW t \in Ids, NEW l \in LaneIds, StoreChunk(t, l) \/ FailChunk(t, l)
      PROVE  OneSession'
  <2>1. UNCHANGED <<flow, kept>> \/ (flow' = "failed" /\ kept' = kept)
    BY <1>6 DEF StoreChunk, FailChunk, EndTransfer, GoOn
  <2> QED
    BY <1>6, <2>1, DialogStaysWithSession DEF StoreChunk, FailChunk, plan, server, cancelling
<1>7. ASSUME NEW t \in Ids, CompleteUpload(t)
      PROVE  OneSession'
  BY <1>7, CompletionStaysWithSession
<1>8. CASE StartCancel \/ ClearCancelled \/ RemoveSession
  BY <1>8 DEF StartCancel, ClearCancelled, RemoveSession, OneSession, SessionKept, GivesUp
<1>9. CASE Expire
  BY <1>9, ExpiryStaysWithSession
<1>10. CASE Age \/ ReadActive \/ RemoveUnused \/ UNCHANGED vars
  BY <1>10, DialogStaysWithSession
     DEF Age, ReadActive, RemoveUnused, vars, plan, dialog, server, cancelling
<1> QED
  BY <1>1, <1>2, <1>3, <1>4, <1>5, <1>6, <1>7, <1>8, <1>9, <1>10 DEF Next, Browse

LEMMA SingleInvariant == Spec => []SingleInv
<1>1. TypeInv /\ SweepInv /\ SingleInv /\ [Next]_vars => SingleInv'
  <2> SUFFICES ASSUME TypeInv, SweepInv, SingleInv, [Next]_vars, Quiet' PROVE
                 /\ ~renaming'
                 /\ ~GoesOn' => TurnsTaken'
                 /\ ~GivesUp' => SessionKept' /\ SessionUsed' /\ OneFile'
    BY DEF SingleInv
  <2>1. Quiet /\ (GoesOn' <=> GoesOn) /\ (GivesUp' <=> GivesUp)
    BY EventsStay DEF Quiet, GoesOn, GivesUp
  <2> QED
    BY <2>1, RenamingStays, TurnsStayTaken, SessionStays DEF SingleInv, OneSession
<1> QED
  BY <1>1, InitSingleInv, TypeInvariant, SweepInvariant, PTL DEF Spec

(* However often a transfer fails, is paused, reloaded and started again,  *)
(* the file becomes one asset, as long as completions do not go on behind  *)
(* the user's back while sessions are given up.                            *)
THEOREM UploadsStaySingle == Spec => []UploadsAreSingle
<1>1. TypeInv /\ SingleInv => UploadsAreSingle
  <2> SUFFICES ASSUME TypeInv, SingleInv, Quiet, ~(GoesOn /\ GivesUp) PROVE Cardinality(assets) <= 1
    BY DEF UploadsAreSingle, Quiet
  <2>1. \A a, b \in assets : a = b
    BY DEF SingleInv, TurnsTaken, OneFile
  <2>2. CASE assets = {}
    BY <2>2, FS_EmptySet
  <2>3. CASE assets # {}
    <3>1. PICK a \in assets : TRUE
      BY <2>3
    <3>2. assets = {a}
      BY <2>1, <3>1
    <3> QED
      BY <3>2, FS_Singleton
  <2> QED
    BY <2>2, <2>3
<1> QED
  BY <1>1, TypeInvariant, SingleInvariant, PTL
=============================================================================
