-------------------------- MODULE OpenCodeNormalizer --------------------------
(***************************************************************************)
(* What the OpenCode adapter makes of its server's sessions: the usage it  *)
(* reports per model, the turns it counts and the nested calls it shows    *)
(* (normalizer.ts), from an event stream that may lose or repeat events    *)
(* and break, and from the messages it reads back afterwards               *)
(* (reconcile.ts).  Usage reports are cumulative: the last one for a model *)
(* stands for everything the run has spent on it.                          *)
(*                                                                         *)
(* A message is keyed by its session and its id, is running, completed or  *)
(* failed, and has the model and usage that are known of it so far.        *)
(* Tokens are one number, which is also their price where the catalog has  *)
(* the model; a positive cost is the server's own estimate.                *)
(***************************************************************************)
EXTENDS CodeModeCalls, FiniteSets, Functions

CONSTANTS
  Scenes,    \* what servers do: their events and whether an execute tool runs
  Sessions, Root,
  Models,    \* provider-qualified models
  Priced,    \* those of the pricing catalog
  None

ASSUME NormalizerAssumption == Root \in Sessions /\ Priced \subseteq Models /\ None \notin Models

StepTypes == {"stepStarted", "stepEnded", "stepFailed"}
CompactionTypes == {"compactionStarted", "compactionEnded"}

(* The message an event is about, and what it is. *)
KeyOf(e) == <<e.session, IF e.type = "compactionEnded" THEN e.compaction ELSE e.id>>
KindOf(e) == IF e.type \in CompactionTypes THEN "compaction" ELSE "assistant"

(* What the adapter relies on in a server's events: a session other than the   *)
(* root's is created before anything happens in it, by one that is there; a    *)
(* message has one kind and an id of its own; a session has one compaction at  *)
(* a time, and one that has ended is over.                                     *)
Orderly(events) ==
  LET Of(types) == {i \in DOMAIN events : events[i].type \in types}
      Messages == Of(StepTypes \cup CompactionTypes)
  IN  /\ events \in Seq(Range(events))
      /\ \A i \in DOMAIN events :
           /\ events[i].session \in Sessions
           /\ events[i].session # Root =>
                \E j \in 1..i :
                  /\ events[j].type = "created" /\ events[j].session = events[i].session
                  /\ \/ events[j].parent = Root
                     \/ \E k \in 1..j - 1 : events[k].session = events[j].parent
      /\ \A i, j \in Messages : KeyOf(events[i]) = KeyOf(events[j]) => KindOf(events[i]) = KindOf(events[j])
      /\ \A i \in Of({"compactionStarted"}) : events[i].id # None
      /\ \A i \in Of({"compactionEnded"}) :
           /\ events[i].status \in {"completed", "failed"}
           /\ \A j \in Messages : KeyOf(events[j]) # <<events[i].session, events[i].id>>
           /\ \A j \in Messages : j > i => KeyOf(events[j]) # KeyOf(events[i])
           /\ \A h, j \in Of(CompactionTypes) :
                h < j /\ j < i /\ KeyOf(events[h]) = KeyOf(events[i])
                  /\ events[j].session = events[i].session => KeyOf(events[j]) = KeyOf(events[i])

ASSUME ServerAssumption == \A s \in Scenes : Orderly(s.events)

VARIABLES
  scene,     \* the server's events, in order
  logged,    \* how many of them have happened
  store,     \* the server's messages, oldest first
  context,   \* NormalizationContext, with the reports made and turns counted
  phase,     \* "streaming", "root", "children" or "done"
  recovery   \* reconcileSession, and what properties need to know of it

serverVars == <<scene, logged, store>>
normalizerVars == <<serverVars, context, phase, recovery, callVars>>

Buckets == Models \cup {None}    \* None: "unknown/unknown"
Nothing == [key \in {} |-> <<>>]

NormalizerInit ==
  /\ scene \in Scenes /\ logged = 0 /\ store = <<>>
  /\ context = [messages |-> Nothing, retired |-> {}, incomplete |-> FALSE,
                sessions |-> {Root}, parents |-> {}, announced |-> {}, seen |-> {},
                active |-> [s \in Sessions |-> None], unmatched |-> {}, counted |-> {},
                reported |-> Nothing, turns |-> 0]
  /\ phase = "streaming"
  /\ recovery = [visited |-> {}, fetching |-> {}, listing |-> {}, incomplete |-> FALSE,
                 expired |-> FALSE, since |-> 0, cut |-> FALSE]
  /\ CallsInit

Message(kind, status) ==
  [kind |-> kind, status |-> status, model |-> None, tokens |-> None, cost |-> 0]
Completed(m) == m.status # "running"
-------------------------------------------------------------------------------
(* usageCost: the server's estimate if there is one, else the catalog's.       *)
Cost(m) ==
  IF m.cost > 0 THEN m.cost
  ELSE IF m.tokens # None /\ m.model \in Priced THEN m.tokens ELSE None

InBucket(messages, b) == {k \in DOMAIN messages : messages[k].model = b}
WithCost(messages, keys) == {k \in keys : Cost(messages[k]) # None}

Total(amounts) == FoldFunction(+, 0, amounts)

(* snapshotUsage: the cumulative report for a model.  An empty bucket is a     *)
(* zero, priced if anything of the run is.                                     *)
Report(messages, b, incomplete) ==
  LET mine == InBucket(messages, b)
      final == \A k \in mine : Completed(messages[k])
  IN  [tokens |-> Total([k \in {l \in mine : messages[l].tokens # None} |-> messages[k].tokens]),
       amount |-> Total([k \in WithCost(messages, mine) |-> Cost(messages[k])]),
       estimated |-> WithCost(messages, IF mine = {} THEN DOMAIN messages ELSE mine) # {},
       final |-> final,
       incomplete |-> \/ ~final \/ incomplete
                      \/ \E k \in mine : messages[k].tokens = None \/ Cost(messages[k]) = None]

Refreshed(c, buckets) ==
  [c EXCEPT !.reported =
     [b \in DOMAIN @ \cup buckets |-> IF b \in buckets THEN Report(c.messages, b, c.incomplete) ELSE @[b]]]

(* Mutant: a missed start is not made up for. *)
MutantStandIns(c, key, m) == {}

(* Compactions that ended under no known id and may be this one. *)
StandIns(c, key, m) ==
  {k \in c.unmatched \ {key} : k[1] = key[1] /\ c.messages[k] = m /\ key \notin DOMAIN c.messages}

(* A compaction: its projection takes the place of the stand-in, and it is the *)
(* session's active one while it runs.                                         *)
Compacted(c, key, m, streamed) ==
  LET found == IF streamed THEN {} ELSE StandIns(c, key, m)
      gone == IF found = {} THEN {} ELSE {CHOOSE k \in found : TRUE}
      s == key[1]
  IN  [c EXCEPT !.unmatched = @ \ ({key} \cup gone),
                !.messages = Restrict(@, DOMAIN @ \ gone),
                !.active[s] = IF ~Completed(m) THEN key[2] ELSE IF @ = key[2] THEN None ELSE @]

(* Mutant: a message that changes its model stays in the bucket it was in. *)
MutantLeft(before, key, m) == {}

(* The bucket a message is withdrawn from. *)
Left(before, key, m) ==
  IF key \in DOMAIN before /\ before[key].model # m.model THEN {before[key].model} ELSE {}

(* normalizeOpenCodeMessage: the message replaces what was known of it, and    *)
(* the buckets this touches are reported again, with those that became empty.  *)
Normalized(c, key, m, streamed) ==
  LET c1 == IF m.kind = "compaction" THEN Compacted(c, key, m, streamed) ELSE c
      messages == [k \in DOMAIN c1.messages \cup {key} |-> IF k = key THEN m ELSE c1.messages[k]]
      changed == ~(key \in DOMAIN c.messages /\ c.messages[key] = m)
      vacated == Left(c.messages, key, m)
      retired == (c.retired \ {m.model}) \cup {b \in vacated : InBucket(messages, b) = {}}
      counts == m.kind = "assistant" /\ Completed(m)
      c2 == [c1 EXCEPT !.messages = messages,
                       !.retired = IF changed THEN retired ELSE @,
                       !.turns = @ + IF counts /\ key[1] = Root /\ key \notin c.counted THEN 1 ELSE 0,
                       !.counted = IF counts THEN @ \cup {key} ELSE @]
  IN  IF changed THEN Refreshed(c2, {m.model} \cup vacated \cup retired) ELSE c2
-------------------------------------------------------------------------------
(* trackSession: a session is followed when its parent is, so in the end those *)
(* that are in every set with the ones followed so far and closed under that.  *)
Followed(sessions, parents) ==
  {s \in Sessions :
     \A T \in SUBSET Sessions :
       sessions \subseteq T /\ (\A edge \in parents : edge[2] \in T => edge[1] \in T) => s \in T}

Tracked(c, e) ==
  LET parents == IF e.type = "created" THEN c.parents \cup {<<e.session, e.parent>>} ELSE c.parents
  IN  [c EXCEPT !.parents = parents,
                !.sessions = IF e.type = "created" THEN Followed(@, parents) ELSE @]

Known(c, key, kind) ==
  IF key \in DOMAIN c.messages THEN c.messages[key] ELSE Message(kind, "running")

(* foldOpenCodeEvent: a step that starts again keeps the usage it had. *)
StepStarted(c, e) ==
  LET key == <<e.session, e.id>>
  IN  Normalized(c, key, [Known(c, key, "assistant") EXCEPT !.model = e.model, !.status = "running"], TRUE)

StepEnded(c, e) ==
  LET key == <<e.session, e.id>>
  IN  Normalized(c, key, [Known(c, key, "assistant") EXCEPT !.tokens = e.tokens, !.cost = e.cost,
                                                            !.status = "completed"], TRUE)

(* A failed step has neither tokens nor a cost. *)
StepFailed(c, e) ==
  LET key == <<e.session, e.id>>
  IN  Normalized(c, key, [Known(c, key, "assistant") EXCEPT !.status = "failed"], TRUE)

CompactionStarted(c, e) ==
  LET key == <<e.session, e.id>>
  IN  Normalized(c, key, [Known(c, key, "compaction") EXCEPT !.status = "running"], TRUE)

(* The end of a compaction does not name it: it is the session's active one,   *)
(* or gets the event's own id.                                                 *)
CompactionEnded(c, e) ==
  LET active == c.active[e.session]
      key == <<e.session, IF active # None THEN active ELSE e.id>>
      c1 == Normalized(c, key, [kind |-> "compaction", status |-> e.status, model |-> e.model,
                                tokens |-> e.tokens, cost |-> e.cost], TRUE)
  IN  IF active = None THEN [c1 EXCEPT !.unmatched = @ \cup {key}] ELSE c1

(* normalizeOpenCodeEvent, of the i-th event. *)
Event(c, i) ==
  LET e == scene.events[i]
      c1 == Tracked(c, e)
      c2 == [c1 EXCEPT !.seen = @ \cup {i}]
  IN  IF e.session \notin c1.sessions \/ i \in c1.seen THEN c1
      ELSE CASE e.type = "created" -> [c2 EXCEPT !.announced = @ \cup {e.session}]
             [] e.type = "stepStarted" -> StepStarted(c2, e)
             [] e.type = "stepEnded" -> StepEnded(c2, e)
             [] e.type = "stepFailed" -> StepFailed(c2, e)
             [] e.type = "compactionStarted" -> CompactionStarted(c2, e)
             [] e.type = "compactionEnded" -> CompactionEnded(c2, e)
             [] OTHER -> c2
-------------------------------------------------------------------------------
(* The server's side of an event: its messages, as they can be read back. *)
Stored(messages, e) ==
  LET key == KeyOf(e)
      at == {i \in DOMAIN messages : messages[i].key = key}
      old(kind) == IF at = {} THEN Message(kind, "running") ELSE messages[CHOOSE i \in at : TRUE].m
      put(m) == IF at = {} THEN Append(messages, [key |-> key, m |-> m])
                ELSE [messages EXCEPT ![CHOOSE i \in at : TRUE].m = m]
  IN  CASE e.type = "stepStarted" -> put([old("assistant") EXCEPT !.model = e.model, !.status = "running"])
        [] e.type = "stepEnded" -> put([old("assistant") EXCEPT !.tokens = e.tokens, !.cost = e.cost,
                                                                !.status = "completed"])
        [] e.type = "stepFailed" -> put([old("assistant") EXCEPT !.status = "failed"])
        [] e.type = "compactionStarted" -> put(Message("compaction", "running"))
        [] e.type = "compactionEnded" -> put([kind |-> "compaction", status |-> e.status, model |-> e.model,
                                              tokens |-> e.tokens, cost |-> e.cost])
        [] OTHER -> messages

Children(s) ==
  {e.session : e \in {scene.events[i] : i \in {j \in 1..logged : scene.events[j].type = "created"
                                                               /\ scene.events[j].parent = s}}}

Happens ==
  /\ logged < Len(scene.events)
  /\ logged' = logged + 1
  /\ store' = Stored(store, scene.events[logged + 1])
  /\ UNCHANGED <<scene, phase, recovery, callVars>>

EventDelivered ==
  /\ phase = "streaming"
  /\ Happens
  /\ context' = Event(context, logged + 1)

Missed ==
  /\ phase # "done"
  /\ Happens
  /\ UNCHANGED context

Redelivered ==
  /\ phase = "streaming"
  /\ \E i \in context.seen : context' = Event(context, i)
  /\ UNCHANGED <<serverVars, phase, recovery, callVars>>

(* The nested calls of an execute tool. *)
ToolSteps ==
  /\ scene.tool
  /\ \/ phase # "done" /\ (CallBegins \/ CallEnds)
     \/ phase = "streaming" /\ ToolEvent
  /\ UNCHANGED <<serverVars, context, phase, recovery>>
-------------------------------------------------------------------------------
(* The stream is lost: reconcileSession begins. *)
StreamFails ==
  /\ phase = "streaming"
  /\ phase' = "root"
  /\ recovery' = [recovery EXCEPT !.since = logged]
  /\ UNCHANGED <<serverVars, context, callVars>>

(* The deadline of the recovery, or an abort of the run; what arrives in that  *)
(* instant is still taken.                                                     *)
DeadlinePasses ==
  /\ phase \in {"root", "children"} /\ ~recovery.expired
  /\ recovery' = [recovery EXCEPT !.expired = TRUE]
  /\ UNCHANGED <<serverVars, context, phase, callVars>>

(* A session's messages, by their places in the store. *)
MessagesOf(s) == {i \in DOMAIN store : store[i].key[1] = s}

(* How far a reading may go back: to one of them, or there is none. *)
Reaches(s) == MessagesOf(s) \cup {Len(store) + 1}
Whole(s, from) == \A i \in MessagesOf(s) : i >= from

(* fetchMessages and processMessages: the newest messages of a session, oldest *)
(* first.                                                                      *)
Processed(s, from) ==
  LET folded[i \in 0..Len(store)] ==
        IF i = 0 THEN context
        ELSE IF i < from \/ i \notin MessagesOf(s) THEN folded[i - 1]
        ELSE Normalized(folded[i - 1], store[i].key, store[i].m, FALSE)
  IN  folded[Len(store)]

(* Fewer than there are, or a request that failed, is incomplete.  Between two *)
(* pages an abort ends the reading without a word.                             *)
Endings(s, from) ==
  {"read", "failed"}
    \cup IF recovery.expired /\ from \in MessagesOf(s) /\ ~Whole(s, from) THEN {"cut"} ELSE {}

Fetched(s, from, ending) ==
  [recovery EXCEPT !.fetching = @ \ {s},
                   !.incomplete = @ \/ ending = "failed" \/ (ending = "read" /\ ~Whole(s, from)),
                   !.cut = @ \/ ending = "cut"]

(* visit: a session that was not visited is announced, and its messages and    *)
(* its children are asked for; past the deadline it is left out.               *)
New(r, found) == IF r.expired THEN {} ELSE found \ r.visited

Visits(r, found) ==
  [r EXCEPT !.visited = @ \cup New(r, found),
            !.fetching = @ \cup (New(r, found) \ {Root}),
            !.listing = @ \cup New(r, found),
            !.incomplete = @ \/ (r.expired /\ ~(found \subseteq r.visited))]

Announces(c, r, found) == [c EXCEPT !.announced = @ \cup (New(r, found) \ {Root})]

(* The root's messages come before any request about a child. *)
RootRead ==
  /\ phase = "root"
  /\ \E from \in Reaches(Root) : \E ending \in Endings(Root, from) :
       LET c == Processed(Root, from)
           r == Fetched(Root, from, ending)
       IN  /\ context' = Announces(c, r, c.sessions)
           /\ recovery' = Visits(r, c.sessions)
  /\ phase' = "children"
  /\ \/ UNCHANGED callVars
     \/ scene.tool /\ ToolProjected
  /\ UNCHANGED serverVars

MessagesRead(s) ==
  /\ s \in recovery.fetching
  /\ \E from \in Reaches(s) : \E ending \in Endings(s, from) :
       context' = Processed(s, from) /\ recovery' = Fetched(s, from, ending)
  /\ UNCHANGED <<serverVars, phase, callVars>>

(* The children of a session, in one page or several. *)
Discovers(r, s, found) ==
  /\ recovery' = Visits(r, found)
  /\ context' = [Announces(context, r, found) EXCEPT !.sessions = @ \cup found,
                                                   !.parents = @ \cup {<<t, s>> : t \in found}]
  /\ UNCHANGED <<serverVars, phase, callVars>>

ChildrenRead(s) ==
  /\ s \in recovery.listing
  /\ Discovers([recovery EXCEPT !.listing = @ \ {s}], s, Children(s))

(* A page that is not the last: past the deadline it is, for all the caller    *)
(* makes of it.                                                                *)
PageRead(s) ==
  /\ s \in recovery.listing
  /\ \E found \in SUBSET Children(s) :
       /\ found # {} /\ found # Children(s)
       /\ Discovers(IF recovery.expired THEN [recovery EXCEPT !.listing = @ \ {s}, !.cut = TRUE]
                    ELSE recovery, s, found)

ListingFails(s) ==
  /\ s \in recovery.listing
  /\ recovery' = [recovery EXCEPT !.listing = @ \ {s}, !.incomplete = TRUE]
  /\ UNCHANGED <<serverVars, context, phase, callVars>>

(* updateRecoveryCoverage: every bucket is reported again when the coverage    *)
(* changes.                                                                    *)
Covered(c, incomplete) ==
  IF c.incomplete = incomplete THEN c
  ELSE Refreshed([c EXCEPT !.incomplete = incomplete],
                 {c.messages[k].model : k \in DOMAIN c.messages} \cup c.retired)

RecoveryEnds ==
  /\ phase = "children" /\ recovery.fetching = {} /\ recovery.listing = {}
  /\ context' = Covered(context, recovery.incomplete)
  /\ phase' = "done"
  /\ UNCHANGED <<serverVars, recovery, callVars>>

RecoveryOver == phase = "done" /\ UNCHANGED normalizerVars
-------------------------------------------------------------------------------
Recovery ==
  \/ StreamFails \/ DeadlinePasses \/ RootRead \/ RecoveryEnds
  \/ \E s \in Sessions : MessagesRead(s) \/ ChildrenRead(s) \/ PageRead(s) \/ ListingFails(s)

NormalizerNext == EventDelivered \/ Missed \/ Redelivered \/ ToolSteps \/ Recovery \/ RecoveryOver

NormalizerSpec == NormalizerInit /\ [][NormalizerNext]_normalizerVars
-------------------------------------------------------------------------------
(* The last report for a model is always that of the messages known by now,    *)
(* whatever moved between models, was withdrawn, or is known to be missing:    *)
(* nobody corrects a cumulative report that was left standing                  *)
(* (normalizeOpenCodeMessage, updateRecoveryCoverage).                         *)
ReportsFollowMessages ==
  \A b \in Buckets :
    IF b \in DOMAIN context.reported
    THEN context.reported[b] = Report(context.messages, b, context.incomplete)
    ELSE InBucket(context.messages, b) = {}

(* What a list of messages says of each. *)
Truth(messages) ==
  [k \in {messages[i].key : i \in DOMAIN messages} |->
     messages[CHOOSE i \in DOMAIN messages : messages[i].key = k].m]

(* A recovery that claims to be complete, of sessions nobody added to since it *)
(* began, has reported for every model exactly what its messages cost and      *)
(* counted every finished step of the root once, whatever the stream had lost, *)
(* repeated or attributed to another id or model (reconcileSession).  Not      *)
(* when a list was given up at the deadline, or an abort, with pages left.     *)
RecoveredUsageIsExact ==
  phase = "done" /\ ~context.incomplete /\ ~recovery.cut /\ recovery.since = logged =>
    LET truth == Truth(store)
        steps == {k \in DOMAIN truth : k[1] = Root /\ truth[k].kind = "assistant"}
    IN  /\ \A b \in Buckets :
             IF b \in DOMAIN context.reported THEN context.reported[b] = Report(truth, b, FALSE)
             ELSE InBucket(truth, b) = {}
        /\ Cardinality({k \in steps : Completed(truth[k])}) <= context.turns
        /\ context.turns <= Cardinality(steps)
===============================================================================
