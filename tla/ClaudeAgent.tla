----------------------------- MODULE ClaudeAgent ------------------------------
(***************************************************************************)
(* The Claude adapter (claude-agent.ts) between the coordinator that reads *)
(* its stream and the SDK query whose messages it translates.  The stream  *)
(* is an asynchronous generator: it runs when the coordinator asks and is  *)
(* suspended at each yield, where the coordinator may leave it             *)
(* (iterator.return).  The two abort signals and stop() come at any time.  *)
(*                                                                         *)
(* The tokens of a response are one number.  The adapter has no price for  *)
(* them: only the SDK's result has costs.                                  *)
(***************************************************************************)
EXTENDS UsageRules, FiniteSets, Sequences, SequencesExt

CONSTANTS
  Requested,   \* input.provider.requestedModel
  Responses,   \* the ids of API responses
  None,        \* a message without an id
  MaxMessages, \* bound: messages of the SDK about usage
  MaxTokens    \* bound: tokens of a response

ASSUME ClaudeAssumption ==
  /\ IsFiniteSet(Models) /\ Requested \in Models /\ None \notin Responses
  /\ MaxMessages \in Nat /\ MaxTokens \in Nat

VARIABLES
  place,      \* where the generator is
  todo,       \* the events it still yields before it goes on
  after,      \* where it goes then
  usage,      \* AssistantUsage: tokens by model and response, and the anonymous ones
  query,      \* the SDK query; "aborted" when its controller was, from the start
  signal,     \* the coordinator's signal is aborted
  controller, \* the run's own controller is
  stopped,    \* stop() was called
  accepted,   \* what the coordinator made of the stream: terminal and UsageLedger
  heard,      \* history: what the SDK said about usage
  result,     \* history: its result
  left        \* history: the coordinator left the stream

generator == <<place, todo, after>>
aborts == <<signal, controller, stopped>>
said == <<heard, result>>
claudeVars == <<generator, usage, query, aborts, accepted, said, left>>

NoResult == [ok |-> FALSE, form |-> "pending", bill |-> [m \in Models |-> 0]]

ClaudeInit ==
  /\ place = "new" /\ todo = <<>> /\ after = "new"
  /\ usage = [tokens |-> [key \in {} |-> 0], anonymous |-> 0] /\ query = "none"
  /\ signal = FALSE /\ controller = FALSE /\ stopped = FALSE
  /\ accepted = [terminal |-> "none", byModel |-> EmptyLedger]
  /\ heard = <<>> /\ result = NoResult /\ left = FALSE

(* runtime.active is set. *)
Active == place \notin {"new", "ready", "over"}
-------------------------------------------------------------------------------
Progress == [kind |-> "progress"]
Terminal(state) == [kind |-> "terminal", state |-> state]
UsageOf(m, amount, source, final) ==
  [kind |-> "usage", usage |-> [model |-> m, amount |-> amount, source |-> source,
                                final |-> final, keyed |-> FALSE]]

Total(amounts) == FoldFunction(+, 0, amounts)

(* Mutant: a repeated message adds to its response. *)
MutantRecorded(u, m, id, tokens) ==
  LET key == <<m, id, 0>>
  IN  [u EXCEPT !.tokens = [k \in DOMAIN @ \cup {key} |->
         IF k # key THEN @[k] ELSE tokens + (IF k \in DOMAIN @ THEN @[k] ELSE 0)]]

(* AssistantUsage.record: messages of one response replace each other, one     *)
(* without an id is a response of its own.                                     *)
Recorded(u, m, id, tokens) ==
  LET anonymous == u.anonymous + IF id = None THEN 1 ELSE 0
      key == <<m, id, IF id = None THEN anonymous ELSE 0>>
  IN  [tokens |-> [k \in DOMAIN u.tokens \cup {key} |-> IF k = key THEN tokens ELSE u.tokens[k]],
       anonymous |-> anonymous]

(* AssistantUsage.snapshots *)
Snapshots(final) ==
  LET known == {k[1] : k \in DOMAIN usage.tokens}
      tokens(m) == Total([k \in {l \in DOMAIN usage.tokens : l[1] = m} |-> usage.tokens[k]])
  IN  SetToSeq({UsageOf(m, tokens(m), "absent", final) : m \in known})

(* collectResultUsage: a cost by model, or one total under the requested model, *)
(* or nothing, and then the responses.                                         *)
ResultUsage(r) ==
  CASE r.form = "models" -> SetToSeq({UsageOf(m, r.bill[m], "known", TRUE) : m \in {n \in Models : r.bill[n] > 0}})
    [] r.form = "total" -> <<UsageOf(Requested, Total(r.bill), "known", TRUE)>>
    [] r.form = "none" -> Snapshots(TRUE)

(* What a run yields when it ends without a result. *)
LastWords == Snapshots(FALSE) \o <<Terminal("failed")>>
-------------------------------------------------------------------------------
(* The coordinator takes an event: usage past the terminal is dropped. *)
Taken(e) ==
  CASE e.kind = "terminal" -> [accepted EXCEPT !.terminal = IF @ = "none" THEN e.state ELSE "second"]
    [] e.kind = "usage" /\ accepted.terminal = "none" -> [accepted EXCEPT !.byModel = Record(@, e.usage)]
    [] OTHER -> accepted

(* The finally block. *)
Closed(then) == IF then = "over" /\ query # "none" THEN "closed" ELSE query

(* The generator yields the first of some events, or goes on at once. *)
Yields(events, then) ==
  IF events = <<>>
  THEN /\ place' = then /\ todo' = <<>> /\ after' = then
       /\ accepted' = accepted /\ query' = Closed(then)
  ELSE /\ place' = "suspended" /\ todo' = Tail(events) /\ after' = then
       /\ accepted' = Taken(Head(events)) /\ query' = query

StartCalled ==
  /\ place = "new"
  /\ place' = IF stopped \/ signal THEN "over" ELSE "ready"
  /\ UNCHANGED <<todo, after, usage, query, aborts, accepted, said, left>>

(* The first next(): a stopped runtime throws. *)
RunBegins ==
  /\ place = "ready"
  /\ IF stopped THEN Yields(<<>>, "over") ELSE Yields(<<Progress>>, "query")
  /\ UNCHANGED <<usage, aborts, said, left>>

(* The coordinator asks for the next event. *)
Resumed ==
  /\ place = "suspended"
  /\ IF todo # <<>> THEN Yields(todo, after) ELSE Yields(<<>>, after)
  /\ UNCHANGED <<usage, aborts, said, left>>

(* The query is made, unless the coordinator's signal was aborted by then or   *)
(* the SDK throws.  One made with an aborted controller says nothing.          *)
QueryMade ==
  /\ place = "query"
  /\ \/ Yields(<<Terminal("failed")>>, "over")
     \/ /\ ~signal
        /\ place' = "reading" /\ after' = "reading" /\ query' = IF controller THEN "aborted" ELSE "open"
        /\ UNCHANGED <<todo, accepted>>
  /\ UNCHANGED <<usage, aborts, said, left>>

(* An assistant message: its usage, and an event for each of its parts. *)
AssistantSpeaks ==
  /\ place = "reading" /\ query = "open" /\ Len(heard) < MaxMessages
  /\ \E m \in Models, id \in Responses \cup {None}, tokens \in 1..MaxTokens, parts \in 0..1 :
       /\ usage' = Recorded(usage, m, id, tokens)
       /\ heard' = Append(heard, [model |-> m, id |-> id, tokens |-> tokens])
       /\ Yields([i \in 1..parts |-> Progress], "reading")
  /\ UNCHANGED <<aborts, result, left>>

(* Any other message. *)
SystemSpeaks ==
  /\ place = "reading" /\ query = "open"
  /\ Yields(<<Progress>>, "reading")
  /\ UNCHANGED <<usage, aborts, said, left>>

ResultEvents(r) == ResultUsage(r) \o <<Terminal(IF r.ok THEN "completed" ELSE "failed")>>

ResultArrives ==
  /\ place = "reading" /\ query = "open"
  /\ \E r \in [ok : BOOLEAN, form : {"models", "total", "none"}, bill : [Models -> 0..1]] :
       /\ r.form = "models" => \E m \in Models : r.bill[m] > 0
       /\ result' = r
       /\ Yields(ResultEvents(r), "closing")
  /\ UNCHANGED <<usage, aborts, heard, left>>

(* The query ends without a result, or throws. *)
QueryEnds ==
  /\ place = "reading"
  /\ Yields(LastWords, "over")
  /\ UNCHANGED <<usage, aborts, said, left>>

(* The loop is left, which closes the SDK's iterator. *)
IteratorCloses ==
  /\ place = "closing"
  /\ Yields(<<>>, "over")
  /\ UNCHANGED <<usage, aborts, said, left>>

(* The closing fails: the catch block yields what it would have yielded, to    *)
(* nobody if it was the coordinator that left.                                 *)
ClosingFails ==
  /\ place = "closing"
  /\ LET events == IF accepted.terminal = "none" THEN LastWords ELSE Snapshots(FALSE)
     IN  IF left /\ events # <<>>
         THEN place' = "abandoned" /\ UNCHANGED <<todo, after, query, accepted>>
         ELSE Yields(events, "over")
  /\ UNCHANGED <<usage, aborts, said, left>>

(* iterator.return: from inside the loop by way of the SDK's iterator. *)
ConsumerLeaves ==
  /\ place = "suspended"
  /\ left' = TRUE
  /\ place' = IF after \in {"reading", "closing"} THEN "closing" ELSE "over"
  /\ query' = Closed(place')
  /\ todo' = <<>>
  /\ UNCHANGED <<after, usage, aborts, accepted, said>>
-------------------------------------------------------------------------------
(* Mutant: the run's controller does not follow the coordinator's signal. *)
MutantFollows == controller

Follows == controller \/ Active

SignalAborted ==
  /\ ~signal /\ signal' = TRUE
  /\ controller' = Follows
  /\ UNCHANGED <<generator, usage, query, stopped, accepted, said, left>>

(* Mutant: the query is left to the stream. *)
MutantStopCloses == query

StopCloses == IF Active /\ query # "none" THEN "closed" ELSE query

Stop ==
  /\ ~stopped /\ stopped' = TRUE
  /\ controller' = (controller \/ Active)
  /\ query' = StopCloses
  /\ UNCHANGED <<generator, usage, signal, accepted, said, left>>

Over == place \in {"over", "abandoned"} /\ UNCHANGED claudeVars

ClaudeNext ==
  \/ StartCalled \/ RunBegins \/ Resumed \/ QueryMade \/ AssistantSpeaks \/ SystemSpeaks \/ ResultArrives
  \/ QueryEnds \/ IteratorCloses \/ ClosingFails \/ ConsumerLeaves \/ SignalAborted \/ Stop \/ Over

ClaudeSpec == ClaudeInit /\ [][ClaudeNext]_claudeVars

(* The coordinator goes on asking; a query whose controller is aborted, or     *)
(* that was closed, ends; closing an iterator settles.                         *)
ClaudeFairness ==
  /\ WF_claudeVars(StartCalled \/ RunBegins \/ QueryMade)
  /\ WF_claudeVars(place = "suspended" /\ (Resumed \/ ConsumerLeaves))
  /\ SF_claudeVars((controller \/ query = "closed") /\ QueryEnds)
  /\ WF_claudeVars(IteratorCloses \/ ClosingFails)

ClaudeFairSpec == ClaudeSpec /\ ClaudeFairness
-------------------------------------------------------------------------------
(* The response a message speaks of: the one of its id, or one of its own. *)
Response(h, i) ==
  <<h[i].model, h[i].id, IF h[i].id = None THEN Cardinality({j \in 1..i : h[j].id = None}) ELSE 0>>

(* The last that was said of a response. *)
LastOf(h, k) ==
  CHOOSE i \in DOMAIN h : Response(h, i) = k /\ \A j \in DOMAIN h : Response(h, j) = k => j <= i

(* The usage a model is owed: the SDK's own account if there is one, else each *)
(* response once.                                                              *)
Owed(h, r, m) ==
  LET responses == {Response(h, i) : i \in {j \in DOMAIN h : h[j].model = m}}
      billed == CASE r.form = "models" -> {n \in Models : r.bill[n] > 0}
                  [] r.form = "total" -> {Requested}
                  [] OTHER -> {}
      amount == IF r.form = "total" THEN Total(r.bill) ELSE r.bill[m]
  IN  IF m \in billed THEN UsageOf(m, amount, "known", TRUE).usage
      ELSE IF billed # {} \/ responses = {} THEN NoUsage
      ELSE UsageOf(m, Total([k \in responses |-> h[LastOf(h, k)].tokens]), "absent", r.form # "pending").usage

(* A stream that was read to its end has one terminal, and what the            *)
(* coordinator's ledger then holds is the usage of the run: no response is     *)
(* counted twice or dropped, and nothing that an error after the result makes  *)
(* the adapter say again changes it (AssistantUsage, collectResultUsage).      *)
SpendReachesLedger ==
  place = "over" /\ ~left /\ query # "none" =>
    /\ accepted.terminal = IF result.ok THEN "completed" ELSE "failed"
    /\ \A m \in Models : accepted.byModel[m] = Owed(heard, result, m)

(* When nobody reads the stream any more and stop() was called, the SDK's      *)
(* query is closed: by the stream, or by stop() where an error left the stream *)
(* suspended after the coordinator had gone (stop, the finally block of run).  *)
NoQueryLeft ==
  stopped /\ place \in {"over", "abandoned"} => query \in {"none", "closed"}

(* An abort, or a stop, at whatever moment, ends the stream: what executeRun   *)
(* relies on when it drains an attempt (run, onAbort, stop).                   *)
StopEndsStream == (signal \/ stopped) ~> (place \in {"over", "abandoned"})
===============================================================================
