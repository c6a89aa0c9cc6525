------------------------------ MODULE FindCID ------------------------------
(***************************************************************************)
(* findCIDInNetwork (src/creator-node/src/utils.js, lines 242-369): a      *)
(* node that finds a file missing on its disk asks every other registered *)
(* content node for it, writes the first stream it gets to filePath and    *)
(* checks its hash.  A redis set attempted_fs_fixes:<date> makes the fix   *)
(* run once per file and day; the node list is cached in redis for 30     *)
(* minutes.  The model has one file, several concurrent calls of the      *)
(* lookup for it, and the UTC date that names the attempt key.            *)
(***************************************************************************)
EXTENDS Integers, Sequences

CONSTANTS
    Callers,      \* concurrent calls of findCIDInNetwork for the file
    PeerList,     \* the chain's content-node list, self filtered out
    ExcludeList,  \* the excludeList argument
    Responses,    \* what a peer's /file_lookup can do (see Request)
    MaxDay        \* bound on the days the model lets pass

ASSUME PeerListAssumption == DOMAIN PeerList = 1..Len(PeerList)
ASSUME ResponsesAssumption ==
    Responses \subseteq {"error", "empty", "good", "bad", "broken"}
ASSUME MaxDayAssumption == MaxDay \in Nat

VARIABLES
    day,        \* today's UTC date, the suffix of the attempt key
    attempted,  \* the days whose attempted_fs_fixes set holds filePath
    cache,      \* whether redis holds all_registered_cnodes
    disk,       \* what filePath holds
    pc,         \* pc[c]: where call c is
    gateDay,    \* gateDay[c]: the day c's SADD returned 1 (-1: never)
    idx,        \* idx[c]: the loop index into the filtered node list
    dl,         \* dl[c]: the stream c is writing
    result      \* result[c]: what c returned

vars == <<day, attempted, cache, disk, pc, gateDay, idx, dl, result>>

Contents == {"absent", "partial", "good", "bad"}
PCs == {"idle", "sadd", "getNodes", "request", "write", "hash", "unlink",
        "returned"}
\* undefined for the two early returns, then the value of found.
Results == {"none", "undefined", "found", "notFound"}

\* creatorNodesFiltered: the list without the excluded endpoints.
Candidates == SelectSeq(PeerList, LAMBDA n : n \notin ExcludeList)

Init ==
    /\ day = 0
    /\ attempted = {}
    /\ cache = FALSE
    /\ disk = "absent"
    /\ pc = [c \in Callers |-> "idle"]
    /\ gateDay = [c \in Callers |-> -1]
    /\ idx = [c \in Callers |-> 1]
    /\ dl = [c \in Callers |-> "good"]
    /\ result = [c \in Callers |-> "none"]

\* A caller (a request that hit the missing file) starts the lookup.
Call(c) ==
    /\ pc[c] = "idle"
    /\ pc' = [pc EXCEPT ![c] = "sadd"]
    /\ UNCHANGED <<day, attempted, cache, disk, gateDay, idx, dl, result>>

\* return: undefined at the early returns, found at the end (line 314).
Return(c, r) ==
    /\ pc' = [pc EXCEPT ![c] = "returned"]
    /\ result' = [result EXCEPT ![c] = r]

\* Mutant: the result of SADD is not recorded, so every call passes.
GetIfAttemptedStateFixNoRecord(c) ==
    /\ pc[c] = "sadd"
    /\ gateDay' = [gateDay EXCEPT ![c] = day]
    /\ pc' = [pc EXCEPT ![c] = "getNodes"]
    /\ UNCHANGED <<day, attempted, cache, disk, idx, dl, result>>

(***************************************************************************)
(* getIfAttemptedStateFix: SADD attempted_fs_fixes:<today> filePath, an    *)
(* atomic test-and-add; 0 means a call already tried today, and the       *)
(* lookup returns undefined.  (The EXPIRE that follows changes nothing    *)
(* the model distinguishes: the key of another day is another key.)       *)
(***************************************************************************)
GetIfAttemptedStateFix(c) ==
    /\ pc[c] = "sadd"
    /\ attempted' = attempted \cup {day}
    /\ IF day \in attempted
         THEN /\ Return(c, "undefined")
              /\ UNCHANGED gateDay
         ELSE /\ gateDay' = [gateDay EXCEPT ![c] = day]
              /\ pc' = [pc EXCEPT ![c] = "getNodes"]
              /\ UNCHANGED result
    /\ UNCHANGED <<day, cache, disk, idx, dl>>

\* Mutant: the loop index starts one below the first node.
GetAllRegisteredCNodesFromZero(c) ==
    /\ pc[c] = "getNodes"
    /\ \E chainOk \in BOOLEAN :
         /\ cache' = (cache \/ chainOk)
         /\ IF cache' /\ Len(PeerList) > 0
              THEN /\ pc' = [pc EXCEPT ![c] = "request"]
                   /\ idx' = [idx EXCEPT ![c] = 0]
                   /\ UNCHANGED result
              ELSE /\ Return(c, "undefined")
                   /\ UNCHANGED idx
    /\ UNCHANGED <<day, attempted, disk, gateDay, dl>>

(***************************************************************************)
(* getAllRegisteredCNodes: the cached list if redis holds one, else the    *)
(* chain's list, which is then cached; a chain error yields [] and is not *)
(* cached.  An empty list makes the lookup return undefined (line 257);    *)
(* otherwise the loop starts at the first node of the filtered list,      *)
(* which may be empty: then found = false is returned (Request).          *)
(***************************************************************************)
GetAllRegisteredCNodes(c) ==
    /\ pc[c] = "getNodes"
    /\ \E chainOk \in BOOLEAN :
         /\ cache' = (cache \/ chainOk)
         /\ IF cache' /\ Len(PeerList) > 0
              THEN /\ pc' = [pc EXCEPT ![c] = "request"]
                   /\ idx' = [idx EXCEPT ![c] = 1]
                   /\ UNCHANGED result
              ELSE /\ Return(c, "undefined")
                   /\ UNCHANGED idx
    /\ UNCHANGED <<day, attempted, disk, gateDay, dl>>

(***************************************************************************)
(* One iteration of the loop: GET node/file_lookup with a 1 s timeout.    *)
(* The request throws ("error": caught, next node), has no data ("empty": *)
(* next node), or yields a stream that is the file ("good"), other bytes  *)
(* ("bad"), or breaks off while it is piped ("broken").  Past the last    *)
(* node the lookup returns found = false.                                 *)
(***************************************************************************)
Request(c) ==
    /\ pc[c] = "request"
    /\ IF idx[c] > Len(Candidates)
         THEN /\ Return(c, "notFound")
              /\ UNCHANGED <<idx, dl>>
         ELSE \E resp \in Responses :
                IF resp \in {"error", "empty"}
                  THEN /\ idx' = [idx EXCEPT ![c] = idx[c] + 1]
                       /\ UNCHANGED <<pc, dl, result>>
                  ELSE /\ dl' = [dl EXCEPT ![c] = resp]
                       /\ pc' = [pc EXCEPT ![c] = "write"]
                       /\ UNCHANGED <<idx, result>>
    /\ UNCHANGED <<day, attempted, cache, disk, gateDay>>

(***************************************************************************)
(* writeStreamToFileSystem: ensureDir, then pipeline into                  *)
(* fs.createWriteStream(filePath), which truncates the file.  A broken    *)
(* stream rejects the pipeline after part of the file is written; the     *)
(* catch moves on to the next node and leaves that part on disk.          *)
(***************************************************************************)
WriteStreamToFileSystem(c) ==
    /\ pc[c] = "write"
    /\ IF dl[c] = "broken"
         THEN /\ disk' = "partial"
              /\ idx' = [idx EXCEPT ![c] = idx[c] + 1]
              /\ pc' = [pc EXCEPT ![c] = "request"]
         ELSE /\ disk' = dl[c]
              /\ pc' = [pc EXCEPT ![c] = "hash"]
              /\ UNCHANGED idx
    /\ UNCHANGED <<day, attempted, cache, gateDay, dl, result>>

\* generateNonImageMultihash(filePath) of what is on disk now: a match
\* sets found and breaks; a mismatch goes on to the unlink.
GenerateMultihash(c) ==
    /\ pc[c] = "hash"
    /\ IF disk = "good"
         THEN Return(c, "found")
         ELSE /\ pc' = [pc EXCEPT ![c] = "unlink"]
              /\ UNCHANGED result
    /\ UNCHANGED <<day, attempted, cache, disk, gateDay, idx, dl>>

(***************************************************************************)
(* await fs.unlink(filePath); then, as on a match, found = true and      *)
(* break.  If another call has already removed the file, unlink rejects  *)
(* (ENOENT) and the catch continues with the next node.                   *)
(***************************************************************************)
Unlink(c) ==
    /\ pc[c] = "unlink"
    /\ IF disk = "absent"
         THEN /\ idx' = [idx EXCEPT ![c] = idx[c] + 1]
              /\ pc' = [pc EXCEPT ![c] = "request"]
              /\ UNCHANGED <<disk, result>>
         ELSE /\ disk' = "absent"
              /\ Return(c, "found")
              /\ UNCHANGED idx
    /\ UNCHANGED <<day, attempted, cache, gateDay, dl>>

\* The UTC date moves on: the next call's SADD uses a fresh key.
NextDay ==
    /\ day < MaxDay
    /\ day' = day + 1
    /\ UNCHANGED <<attempted, cache, disk, pc, gateDay, idx, dl, result>>

\* The 30-minute TTL of all_registered_cnodes runs out.
CacheExpire ==
    /\ cache
    /\ cache' = FALSE
    /\ UNCHANGED <<day, attempted, disk, pc, gateDay, idx, dl, result>>

\* The steps of one call of findCIDInNetwork.
LookupStep(c) ==
    \/ Call(c) \/ GetIfAttemptedStateFix(c) \/ GetAllRegisteredCNodes(c)
    \/ Request(c) \/ WriteStreamToFileSystem(c) \/ GenerateMultihash(c)
    \/ Unlink(c)

Next ==
    \/ \E c \in Callers : LookupStep(c)
    \/ NextDay
    \/ CacheExpire

Spec == Init /\ [][Next]_vars

-----------------------------------------------------------------------------
TypeOK ==
    /\ day \in 0..MaxDay
    /\ attempted \subseteq 0..MaxDay
    /\ cache \in BOOLEAN
    /\ disk \in Contents
    /\ pc \in [Callers -> PCs]
    /\ gateDay \in [Callers -> -1..MaxDay]
    /\ idx \in [Callers -> Nat \ {0}]
    /\ dl \in [Callers -> {"good", "bad", "broken"}]
    /\ result \in [Callers -> Results]

(***************************************************************************)
(* The daily attempt key keeps concurrent lookups of one file apart: two  *)
(* calls that both got past getIfAttemptedStateFix did so on different    *)
(* days, so on one day at most one call writes filePath.  It rests on     *)
(* SADD being a single atomic test-and-add.                               *)
(***************************************************************************)
OneLookupPerDay ==
    \A c1, c2 \in Callers :
        c1 # c2 /\ gateDay[c1] # -1 => gateDay[c1] # gateDay[c2]

(***************************************************************************)
(* The strengthening of OneLookupPerDay that every step keeps (the proofs *)
(* use it): the day a call passed the gate is in that day's attempt set,  *)
(* and a call that has not reached the gate has passed it on no day.      *)
(***************************************************************************)
GateInductive ==
    /\ TypeOK
    /\ OneLookupPerDay
    /\ \A c \in Callers : gateDay[c] # -1 => gateDay[c] \in attempted
    /\ \A c \in Callers : pc[c] \in {"idle", "sadd"} => gateDay[c] = -1

(***************************************************************************)
(* findCIDInNetwork returns true only when filePath holds the file it was *)
(* asked for: a caller that goes on to serve or record the file relies on *)
(* it (spec 3: a non-skipped file's bytes hash to its multihash).         *)
(***************************************************************************)
FoundImpliesCopyOnDisk ==
    \A c \in Callers : result[c] = "found" => disk = "good"

(***************************************************************************)
(* Spec 3 and 8: what filePath holds hashes to the CID, except while a    *)
(* lookup has just written a stream and not yet checked it.               *)
(***************************************************************************)
StoredContentMatchesCID ==
    disk \in {"absent", "good"} \/ \E c \in Callers : pc[c] = "hash"

=============================================================================
