----------------------------- MODULE CodeModeCalls -----------------------------
(***************************************************************************)
(* The nested calls of one execute tool (normalizeCodeMode).  The server    *)
(* reports them twice: the tool's own rows name every call and its status,  *)
(* the rows of the bridge plugin carry results, for registered tools only.  *)
(* Each list is a snapshot of the calls so far; either may lag behind the   *)
(* other, be lost, or show a call as running that has ended.  Rows are      *)
(* paired by what they call, repeated calls in the order of the lists.      *)
(*                                                                         *)
(* The module has no specification of its own: OpenCodeNormalizer composes *)
(* its actions.                                                            *)
(***************************************************************************)
EXTENDS Integers, Sequences, FiniteSets

CONSTANTS
  Registered,   \* the tools the bridge can see; "fetch" it cannot
  MaxCalls      \* bound: nested calls

VARIABLES
  calls,    \* the server's calls: what each one calls and whether it has ended
  rows      \* CodeModeState, and the phases shown under each identity

callVars == <<calls, rows>>

NoPairs == [x \in {} |-> <<>>]

CallsInit ==
  /\ calls = <<>>
  /\ rows = [native |-> NoPairs, bridge |-> NoPairs,
             nativeIds |-> NoPairs, bridgeIds |-> NoPairs, shown |-> NoPairs]

Whats == Registered \cup {"fetch"}
Bridged(i) == calls[i].what # "fetch"

(* How many calls the bridge has seen by the i-th, and which was its k-th. *)
Ordinal(i) == Cardinality({j \in 1..i : Bridged(j)})
BridgedCall(k) == CHOOSE i \in DOMAIN calls : Bridged(i) /\ Ordinal(i) = k

CallBegins ==
  /\ Len(calls) < MaxCalls
  /\ \E what \in Whats : calls' = Append(calls, [what |-> what, ended |-> FALSE])
  /\ UNCHANGED rows

CallEnds ==
  /\ \E i \in DOMAIN calls : ~calls[i].ended /\ calls' = [calls EXCEPT ![i].ended = TRUE]
  /\ UNCHANGED rows

(* retain: an ended row is not replaced by a running one. *)
Retained(old, new) ==
  [i \in DOMAIN old \cup DOMAIN new |->
     IF i \in DOMAIN new /\ ~(i \in DOMAIN old /\ old[i].ended /\ ~new[i].ended) THEN new[i] ELSE old[i]]

(* Mutant: a bridge row may be the result of several native ones. *)
MutantMatches(native, bridge, matched, i) ==
  {k \in DOMAIN bridge : bridge[k].what = native[i].what}

(* The bridge rows that may be the result of a native row. *)
Matches(native, bridge, matched, i) ==
  {k \in DOMAIN bridge : k \notin matched /\ bridge[k].what = native[i].what}

Least(S) == CHOOSE k \in S : \A l \in S : k <= l

(* The bridge row that goes with each native row, 0 for none. *)
Paired(native, bridge) ==
  LET pair[i \in DOMAIN native] ==
        LET matched == {pair[j] : j \in 1..i - 1}
            candidates == Matches(native, bridge, matched, i)
        IN  IF candidates = {} THEN 0 ELSE Least(candidates)
  IN  pair

(* A pair keeps the identity that either of its rows has, the native row's     *)
(* first; a row that has none gets a new one.                                  *)
NativeId(i, k) ==
  IF i \in DOMAIN rows.nativeIds THEN rows.nativeIds[i]
  ELSE IF k \in DOMAIN rows.bridgeIds THEN rows.bridgeIds[k] ELSE <<"codemode", i>>
BridgeId(k) == IF k \in DOMAIN rows.bridgeIds THEN rows.bridgeIds[k] ELSE <<"bridge", k>>

(* normalizeSingleTool: what is completed stays so. *)
Shown(ids, ended) ==
  [id \in DOMAIN rows.shown \cup ids |->
     IF id \in ended \/ (id \in DOMAIN rows.shown /\ rows.shown[id] = "completed")
     THEN "completed" ELSE "started"]

(* normalizeCodeMode, given the lists of one event. *)
Observe(nativeList, bridgeList) ==
  LET native == Retained(rows.native, nativeList)
      bridge == Retained(rows.bridge, bridgeList)
      pairs == Paired(native, bridge)
      nativeIds == [i \in DOMAIN native |-> NativeId(i, pairs[i])]
      owner(k) == {i \in DOMAIN native : pairs[i] = k}
      bridgeIds == [k \in DOMAIN bridge |->
                      IF owner(k) = {} THEN BridgeId(k) ELSE nativeIds[Least(owner(k))]]
      ended == {nativeIds[i] : i \in {j \in DOMAIN native : native[j].ended /\ pairs[j] = 0}}
                 \cup {bridgeIds[k] : k \in {l \in DOMAIN bridge : bridge[l].ended}}
      ids == {nativeIds[i] : i \in DOMAIN native} \cup {bridgeIds[k] : k \in DOMAIN bridge}
  IN  rows' = [native |-> native, bridge |-> bridge, nativeIds |-> nativeIds,
               bridgeIds |-> bridgeIds, shown |-> Shown(ids, ended)]

(* The two lists as they were published: some of the calls, as they are or as  *)
(* if they were still running.                                                 *)
NativeRows(n, stale) ==
  [i \in 1..n |-> [calls[i] EXCEPT !.ended = @ /\ ~stale]]
BridgeRows(n, stale) ==
  [k \in 1..n |-> [calls[BridgedCall(k)] EXCEPT !.ended = @ /\ ~stale]]

(* An event about the execute tool carries either list or both. *)
ToolEvent ==
  /\ \E n \in 0..Len(calls), b \in 0..Ordinal(Len(calls)), stale \in BOOLEAN :
       Observe(NativeRows(n, stale), BridgeRows(b, stale))
  /\ UNCHANGED calls

(* The message's projection carries both. *)
ToolProjected ==
  /\ Observe(NativeRows(Len(calls), FALSE), BridgeRows(Ordinal(Len(calls)), FALSE))
  /\ UNCHANGED calls
-------------------------------------------------------------------------------
(* The calls an identity stands for. *)
CallsOf(id) ==
  {i \in DOMAIN rows.nativeIds : rows.nativeIds[i] = id}
    \cup {BridgedCall(k) : k \in {l \in DOMAIN rows.bridgeIds : rows.bridgeIds[l] = id}}

(* Every identity under which a nested call is shown stands for one call, and  *)
(* no call has two, whichever list came first, lagged or was lost              *)
(* (normalizeCodeMode): work is attributed to the call that did it, once.      *)
OneIdentityPerCall ==
  /\ \A id \in DOMAIN rows.shown : Cardinality(CallsOf(id)) = 1
  /\ \A id, other \in DOMAIN rows.shown : id # other => CallsOf(id) \cap CallsOf(other) = {}
===============================================================================
