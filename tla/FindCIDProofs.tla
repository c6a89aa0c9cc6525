---------------------------- MODULE FindCIDProofs ----------------------------
(***************************************************************************)
(* Proofs about FindCID for every set of callers, node list and number of *)
(* days.                                                                  *)
(***************************************************************************)
EXTENDS FindCID, TLAPS

USE PeerListAssumption, ResponsesAssumption, MaxDayAssumption

LEMMA GateInit == Init => GateInductive
<1> SUFFICES ASSUME Init PROVE GateInductive
  OBVIOUS
<1>1. TypeOK
  <2>1. day \in 0..MaxDay /\ attempted \subseteq 0..MaxDay
    BY DEF Init
  <2>2. cache \in BOOLEAN /\ disk \in Contents
    BY DEF Init, Contents
  <2>3. pc \in [Callers -> PCs] /\ result \in [Callers -> Results]
    BY DEF Init, PCs, Results
  <2>4. gateDay \in [Callers -> -1..MaxDay]
    BY DEF Init
  <2>5. idx \in [Callers -> Nat \ {0}] /\ dl \in [Callers -> {"good", "bad", "broken"}]
    BY DEF Init
  <2>6. QED
    BY <2>1, <2>2, <2>3, <2>4, <2>5 DEF TypeOK
<1>2. \A c \in Callers : gateDay[c] = -1
  BY DEF Init
<1>3. QED
  BY <1>1, <1>2 DEF GateInductive, OneLookupPerDay

\* Every step keeps the gate's strengthening.
LEMMA GateStep == GateInductive /\ [Next]_vars => GateInductive'
<1> SUFFICES ASSUME GateInductive, [Next]_vars PROVE GateInductive'
  OBVIOUS
<1> USE DEF GateInductive, TypeOK, OneLookupPerDay, Contents, PCs, Results
<1>1. ASSUME NEW c \in Callers, Call(c) PROVE GateInductive'
  BY <1>1 DEF Call
<1>2. ASSUME NEW c \in Callers, GetIfAttemptedStateFix(c)
      PROVE GateInductive'
  <2>1. gateDay[c] = -1 /\ attempted' = attempted \cup {day}
    BY <1>2 DEF GetIfAttemptedStateFix
  <2>2. CASE day \in attempted
    BY <1>2, <2>1, <2>2 DEF GetIfAttemptedStateFix, Return
  <2>3. CASE day \notin attempted
    <3>1. /\ gateDay' = [gateDay EXCEPT ![c] = day]
          /\ pc' = [pc EXCEPT ![c] = "getNodes"]
          /\ UNCHANGED <<day, result, idx, dl, disk, cache>>
      BY <1>2, <2>3 DEF GetIfAttemptedStateFix
    <3>2. \A d \in Callers : d # c => gateDay[d] # day
      BY <2>3
    <3>3. QED
      BY <2>1, <3>1, <3>2
  <2>4. QED
    BY <2>2, <2>3
<1>3. ASSUME NEW c \in Callers, GetAllRegisteredCNodes(c) PROVE GateInductive'
  <2>1. PICK chainOk \in BOOLEAN :
          /\ cache' = (cache \/ chainOk)
          /\ IF cache' /\ Len(PeerList) > 0
               THEN /\ pc' = [pc EXCEPT ![c] = "request"]
                    /\ idx' = [idx EXCEPT ![c] = 1]
                    /\ UNCHANGED result
               ELSE /\ Return(c, "undefined")
                    /\ UNCHANGED idx
    BY <1>3 DEF GetAllRegisteredCNodes
  <2>2. pc[c] = "getNodes" /\ UNCHANGED <<day, attempted, disk, gateDay, dl>>
    BY <1>3 DEF GetAllRegisteredCNodes
  <2>0. cache' \in BOOLEAN
    BY <2>1, Zenon
  <2>3. CASE cache' /\ Len(PeerList) > 0
    <3>1. /\ pc' = [pc EXCEPT ![c] = "request"]
          /\ idx' = [idx EXCEPT ![c] = 1]
          /\ result' = result
      BY <2>1, <2>3
    <3>2. QED
      BY <2>0, <2>2, <3>1
  <2>4. CASE ~(cache' /\ Len(PeerList) > 0)
    <3>1. /\ pc' = [pc EXCEPT ![c] = "returned"]
          /\ result' = [result EXCEPT ![c] = "undefined"]
          /\ idx' = idx
      BY <2>1, <2>4 DEF Return
    <3>2. QED
      BY <2>0, <2>2, <3>1
  <2>5. QED
    BY <2>3, <2>4
<1>4. ASSUME NEW c \in Callers, Request(c) PROVE GateInductive'
  <2>1. pc[c] = "request" /\ UNCHANGED <<day, attempted, cache, disk, gateDay>>
    BY <1>4 DEF Request
  <2>2. CASE idx[c] > Len(Candidates)
    BY <1>4, <2>1, <2>2 DEF Request, Return
  <2>3. CASE ~(idx[c] > Len(Candidates))
    <3>1. PICK resp \in Responses :
            IF resp \in {"error", "empty"}
              THEN /\ idx' = [idx EXCEPT ![c] = idx[c] + 1]
                   /\ UNCHANGED <<pc, dl, result>>
              ELSE /\ dl' = [dl EXCEPT ![c] = resp]
                   /\ pc' = [pc EXCEPT ![c] = "write"]
                   /\ UNCHANGED <<idx, result>>
      BY <1>4, <2>3 DEF Request
    <3>2. CASE resp \in {"error", "empty"}
      <4>1. /\ idx' = [idx EXCEPT ![c] = idx[c] + 1]
            /\ UNCHANGED <<pc, dl, result>>
        BY <3>1, <3>2
      <4>2. idx[c] + 1 \in Nat \ {0}
        OBVIOUS
      <4>3. QED
        BY <2>1, <4>1, <4>2
    <3>3. CASE resp \notin {"error", "empty"}
      <4>1. /\ dl' = [dl EXCEPT ![c] = resp]
            /\ pc' = [pc EXCEPT ![c] = "write"]
            /\ UNCHANGED <<idx, result>>
        BY <3>1, <3>3
      <4>2. resp \in {"good", "bad", "broken"}
        BY <3>3
      <4>3. QED
        BY <2>1, <4>1, <4>2
    <3>4. QED
      BY <3>2, <3>3
  <2>4. QED
    BY <2>2, <2>3
<1>5. ASSUME NEW c \in Callers, WriteStreamToFileSystem(c)
      PROVE GateInductive'
  <2>1. /\ pc[c] = "write"
        /\ UNCHANGED <<day, attempted, cache, gateDay, dl, result>>
    BY <1>5 DEF WriteStreamToFileSystem
  <2>2. CASE dl[c] = "broken"
    <3>1. /\ disk' = "partial"
          /\ idx' = [idx EXCEPT ![c] = idx[c] + 1]
          /\ pc' = [pc EXCEPT ![c] = "request"]
      BY <1>5, <2>2 DEF WriteStreamToFileSystem
    <3>2. QED
      BY <2>1, <3>1
  <2>3. CASE dl[c] # "broken"
    <3>1. /\ disk' = dl[c]
          /\ pc' = [pc EXCEPT ![c] = "hash"]
          /\ idx' = idx
      BY <1>5, <2>3 DEF WriteStreamToFileSystem
    <3>2. dl[c] \in Contents
      BY <2>3
    <3>3. QED
      BY <2>1, <3>1, <3>2
  <2>4. QED
    BY <2>2, <2>3
<1>6. ASSUME NEW c \in Callers, GenerateMultihash(c) PROVE GateInductive'
  BY <1>6 DEF GenerateMultihash, Return
<1>7. ASSUME NEW c \in Callers, Unlink(c) PROVE GateInductive'
  <2>1. pc[c] = "unlink" /\ UNCHANGED <<day, attempted, cache, gateDay, dl>>
    BY <1>7 DEF Unlink
  <2>2. CASE disk = "absent"
    <3>1. /\ idx' = [idx EXCEPT ![c] = idx[c] + 1]
          /\ pc' = [pc EXCEPT ![c] = "request"]
          /\ UNCHANGED <<disk, result>>
      BY <1>7, <2>2 DEF Unlink
    <3>2. QED
      BY <2>1, <3>1
  <2>3. CASE disk # "absent"
    BY <1>7, <2>1, <2>3 DEF Unlink, Return
  <2>4. QED
    BY <2>2, <2>3
<1>8. CASE NextDay
  BY <1>8 DEF NextDay
<1>9. CASE CacheExpire
  BY <1>9 DEF CacheExpire
<1>10. CASE UNCHANGED vars
  BY <1>10 DEF vars
<1>11. QED
  BY <1>1, <1>2, <1>3, <1>4, <1>5, <1>6, <1>7, <1>8, <1>9, <1>10
  DEF Next, LookupStep

(***************************************************************************)
(* Every step keeps the lookup's variables in their types: the loop index *)
(* stays a positive position in the node list.                            *)
(***************************************************************************)
THEOREM TypeCorrect == Spec => []TypeOK
<1>1. GateInductive => TypeOK
  BY DEF GateInductive
<1>2. QED
  BY GateInit, GateStep, <1>1, PTL DEF Spec

(***************************************************************************)
(* For any number of concurrent calls, peers and days, two calls of       *)
(* findCIDInNetwork for one file that both get past the attempt key of    *)
(* getIfAttemptedStateFix do so on different days: SADD admits one.      *)
(***************************************************************************)
THEOREM LookupsExclusivePerDay == Spec => []OneLookupPerDay
<1>1. GateInductive => OneLookupPerDay
  BY DEF GateInductive
<1>2. QED
  BY GateInit, GateStep, <1>1, PTL DEF Spec

=============================================================================
