----------------------------- MODULE ModelLoop -----------------------------
(***************************************************************************)
(* The model's part of an analysis: run_model_loop and _dispatch of        *)
(* agent/orchestrator.py, the provider chain and the Gemini adapter of     *)
(* agent/llm.py, and the read door of agent/mcp_client.py.                 *)
(*                                                                         *)
(* A turn is a chat that the first provider in the chain answers, with     *)
(* retries and failover.  The answer declines, proposes, or asks for       *)
(* tools; the tool results join the messages of the next turn.  What a     *)
(* tool returns and what the model says are left out; the ids that tie     *)
(* requests to results, and the signatures Gemini issues with its calls,   *)
(* are kept.                                                               *)
(***************************************************************************)
EXTENDS Integers, Sequences, SequencesExt, FiniteSets

CONSTANTS
    Chain,       \* the configured providers, in order
    Keys,        \* the sets of providers that may have a key
    MaxTurns,    \* max_turns_per_ticker
    MaxAttempts, \* MAX_ATTEMPTS_PER_PROVIDER
    MaxAnalyses, \* bound: underlyings analysed one after the other
    MaxCalls,    \* bound: tool calls in one answer
    MaxBackoff,  \* MAX_BACKOFF_SECONDS
    Failures,    \* how an attempt may fail: [status, limited, said]
    Allowlists,  \* what config/mcp_allowlist.json may say: [read, model, write]
    ServerTools, \* what the MCP server exposes
    WriteTools,  \* those of them that write
    Invented     \* the names a model may come up with besides those it is shown

ASSUME LoopAssumption ==
    /\ Chain \in Seq(ToSet(Chain)) \ {<<>>} /\ IsInjective(Chain)
    /\ MaxTurns \in Nat \ {0} /\ MaxAttempts \in Nat \ {0}
    /\ MaxAnalyses \in Nat \ {0} /\ MaxCalls \in Nat
    /\ MaxBackoff \in Nat /\ \A f \in Failures : f.said \in [1 .. 3 -> Nat \cup {-1}]
    /\ WriteTools \subseteq ServerTools

VARIABLES
    keys,       \* the providers that have a key
    allowlist,  \* the one in force
    phase,      \* "chat", "dispatch", "ended"
    analysis,   \* which underlying
    turn,
    provider,   \* index in Chain of the provider being asked
    attempt,
    delay,      \* how long this attempt has waited
    failed,     \* of each provider, its last failure in this chat
    messages,   \* the conversation, without the system prompt
    pending,    \* calls of this turn still to be dispatched
    signatures, \* Gemini adapter: signature by tool-call id
    issued,     \* signatures issued so far
    served,     \* tool names that have reached the server on the model's behalf
    switches,   \* journal: [analysis, turn, provider]
    answeredBy, \* history: [analysis, turn, provider]
    ending      \* of this analysis

setting == <<keys, allowlist>>
chatVars == <<provider, attempt, delay, failed>>
adapterVars == <<signatures, issued>>
conversation == <<analysis, turn, messages, pending>>
histories == <<served, switches, answeredBy>>
loopVars == <<setting, phase, chatVars, adapterVars, conversation, histories, ending>>

Unsigned == 0

-----------------------------------------------------------------------------
(***************************************************************************)
(* The providers.                                                          *)
(***************************************************************************)

\* An OpenAI-compatible provider names its calls itself; the Gemini adapter
\* numbers them from zero in every answer.
CallId(p, n, i) == IF p = "gemini" THEN <<p, i>> ELSE <<p, n, i>>

\* An answer's calls, signed by Gemini if it signs this answer.
Calls(p, asks, signed) ==
    [i \in DOMAIN asks |->
        [role |-> "call", name |-> asks[i], provider |-> p,
         id |-> CallId(p, Len(messages), i),
         signature |-> IF p = "gemini" /\ signed THEN issued + i ELSE Unsigned]]

\* The adapter's table: a signed call's id is (over)written.
Remember(calls) ==
    [id \in DOMAIN signatures \cup {calls[i].id : i \in {j \in DOMAIN calls : calls[j].signature # Unsigned}} |->
        IF \E i \in DOMAIN calls : calls[i].id = id /\ calls[i].signature # Unsigned
        THEN (CHOOSE c \in ToSet(calls) : c.id = id).signature
        ELSE signatures[id]]

\* _translate_messages: what a request to Gemini attaches to a call.
Attached(call) == IF call.id \in DOMAIN signatures THEN signatures[call.id] ELSE Unsigned

\* Providers without a key are skipped.
Available == {i \in DOMAIN Chain : Chain[i] \in keys}

First == IF Available = {} THEN 1 ELSE Min(Available)

Following == {i \in Available : i > provider}

\* A server in trouble and a rate limit pass; any other refusal is settled.
RetryableStatus == {408, 409, 429, 500, 502, 503, 504, 520, 522, 524}

\* Mutant: a 413 is always settled, as any other 4xx.
RetryableBySet(f) == f.status \in RetryableStatus

\* A status of 0 stands for a timeout or a transport error: nothing was answered.
Retryable(f) == f.status \in RetryableStatus \/ (f.status = 413 /\ f.limited)

\* Mutant: the last attempt is never made.
GivesUpEarly(f) == ~ Retryable(f) \/ attempt = MaxAttempts - 1

GivesUp(f) == ~ Retryable(f) \/ attempt = MaxAttempts

\* Mutant: the loop over the providers does not advance.
SameProvider == provider

NextProvider == Min(Following)

\* In the Retry-After header, in the headers of the token and request limits, or
\* in the prose of the body; -1 where there is none, or none that parses.
RetryAfter(f) ==
    LET told == {i \in DOMAIN f.said : f.said[i] >= 0}
    IN  IF told = {} THEN 0 ELSE f.said[Min(told)]

Smaller(a, b) == IF a <= b THEN a ELSE b

\* The provider's own estimate if it gave one, or 2, 4, 8... seconds, up to a cap;
\* the random half second on top is left out.
Delay(f) == Smaller(IF RetryAfter(f) # 0 THEN RetryAfter(f) ELSE 2 ^ attempt, MaxBackoff)

\* LLMClient.chat, one failed attempt: wait and try again, or turn to the next
\* provider; with no provider left the analysis ends in an error.
ChatFails(f) ==
    /\ phase = "chat" /\ provider \in Available
    /\ failed' = [failed EXCEPT ![Chain[provider]] = [attempt |-> attempt, failure |-> f]]
    /\ \/ /\ ~ GivesUp(f)
          /\ attempt' = attempt + 1 /\ delay' = Delay(f)
          /\ UNCHANGED <<provider, phase, ending>>
       \/ /\ GivesUp(f)
          /\ attempt' = 1 /\ delay' = 0
          /\ \/ Following # {} /\ provider' = NextProvider /\ UNCHANGED <<phase, ending>>
             \/ /\ Following = {} /\ UNCHANGED provider
                /\ phase' = "ended" /\ ending' = "error"
    /\ UNCHANGED <<setting, adapterVars, conversation, histories>>

NoProvider ==
    /\ phase = "chat" /\ Available = {}
    /\ phase' = "ended" /\ ending' = "error"
    /\ UNCHANGED <<setting, chatVars, adapterVars, conversation, histories>>

\* A 200 answer whose body is no JSON: neither the client nor run_cycle handles
\* that exception, so the cycle ends here.
BodyGarbled ==
    /\ phase = "chat" /\ Available # {}
    /\ phase' = "ended" /\ ending' = "aborted"
    /\ UNCHANGED <<setting, chatVars, adapterVars, conversation, histories>>

-----------------------------------------------------------------------------
(***************************************************************************)
(* The loop.                                                               *)
(***************************************************************************)

ProposeSpread == "propose_spread"

\* What the model is shown; nothing makes it keep to that.
ToolsForModel == (allowlist.model \cap allowlist.read \cap ServerTools) \cup {ProposeSpread}

Asks == UNION {[1 .. n -> ToolsForModel \cup Invented] : n \in 0 .. MaxCalls}

\* Mutant: only the first turn after a failover is journalled.
SwitchOnce(p) ==
    IF p # Chain[First] /\ ~ \E s \in switches : s.analysis = analysis
    THEN switches \cup {[analysis |-> analysis, turn |-> turn, provider |-> p]} ELSE switches

LogProviderSwitch(p) ==
    IF p # Chain[First]
    THEN switches \cup {[analysis |-> analysis, turn |-> turn, provider |-> p]} ELSE switches

Unfailed == [p \in ToSet(Chain) |-> [attempt |-> 0, failure |-> 0]]

\* The next chat starts at the head of the chain; what it counts is its own.
FreshChat == provider' = First /\ attempt' = 1 /\ delay' = 0 /\ failed' = Unfailed

\* The answer ends the loop when it asks for nothing, or proposes; whatever
\* else it asked for in the same breath is dropped.
ChatAnswers(asks, signed, wellFormed) ==
    LET p == Chain[provider]
        calls == Calls(p, asks, signed)
        proposes == \E i \in DOMAIN asks : asks[i] = ProposeSpread
    IN  /\ phase = "chat" /\ Available # {}
        /\ signatures' = Remember(calls)
        /\ issued' = IF p = "gemini" /\ signed THEN issued + Len(asks) ELSE issued
        /\ switches' = LogProviderSwitch(p)
        /\ answeredBy' = answeredBy \cup {[analysis |-> analysis, turn |-> turn, provider |-> p]}
        /\ \/ /\ asks = <<>> /\ ending' = "declined" /\ phase' = "ended"
              /\ UNCHANGED <<messages, pending>>
           \/ /\ proposes /\ phase' = "ended"
              /\ ending' = IF wellFormed THEN "proposal" ELSE "malformed"
              /\ UNCHANGED <<messages, pending>>
           \/ /\ asks # <<>> /\ ~ proposes
              /\ messages' = messages \o calls
              /\ pending' = calls
              /\ phase' = "dispatch" /\ UNCHANGED ending
        /\ FreshChat
        /\ UNCHANGED <<setting, analysis, turn, served>>

\* Mutant: the tool is only looked up among those the server exposes.
ServedIfExposed(name) == name \in ServerTools

\* call_read: only the allowlist goes through.
CallRead(name) == name \in allowlist.read /\ name # ProposeSpread

\* Mutant: a refused or failed call leaves no message for the model.
AnswersWhenServed(call, ok) ==
    IF ok THEN Append(messages, [role |-> "result", id |-> call.id]) ELSE messages

\* _dispatch: a failed call is a result the model can read.
ToolMessage(call, ok) == Append(messages, [role |-> "result", id |-> call.id])

Dispatch(ok) ==
    LET call == Head(pending)
    IN  /\ phase = "dispatch"
        /\ ok => CallRead(call.name)
        /\ served' = IF CallRead(call.name) THEN served \cup {call.name} ELSE served
        /\ messages' = ToolMessage(call, ok)
        /\ pending' = Tail(pending)
        /\ \/ Len(pending) > 1 /\ UNCHANGED <<phase, turn, ending>>
           \/ /\ Len(pending) = 1 /\ turn < MaxTurns
              /\ turn' = turn + 1 /\ phase' = "chat" /\ UNCHANGED ending
           \/ /\ Len(pending) = 1 /\ turn = MaxTurns
              /\ phase' = "ended" /\ ending' = "turn_limit"
              /\ UNCHANGED turn
        /\ UNCHANGED <<setting, chatVars, analysis, adapterVars, switches, answeredBy>>

\* The next underlying: a new conversation, the same client.
AnalyseTicker ==
    /\ phase = "ended" /\ ending \notin {"aborted", "refused"} /\ analysis < MaxAnalyses
    /\ analysis' = analysis + 1
    /\ phase' = "chat" /\ turn' = 1 /\ FreshChat
    /\ messages' = <<>> /\ pending' = <<>> /\ ending' = "none"
    /\ UNCHANGED <<setting, adapterVars, histories>>

\* Mutant: the allowlist is taken as it is.
AcceptsAny(list) == TRUE

\* MCPClient refuses to start on a list that names a tool as both.
Accepts(list) == list.read \cap list.write = {}

LoopInit ==
    /\ keys \in Keys /\ allowlist \in Allowlists
    /\ IF Accepts(allowlist) THEN phase = "chat" /\ ending = "none"
                              ELSE phase = "ended" /\ ending = "refused"
    /\ analysis = 1 /\ turn = 1
    /\ provider = First /\ attempt = 1 /\ delay = 0 /\ failed = Unfailed
    /\ messages = <<>> /\ pending = <<>>
    /\ signatures = <<>> /\ issued = 0
    /\ served = {} /\ switches = {} /\ answeredBy = {}

LoopNext ==
    \/ \E f \in Failures : ChatFails(f)
    \/ NoProvider \/ BodyGarbled
    \/ \E asks \in Asks, signed, wellFormed \in BOOLEAN : ChatAnswers(asks, signed, wellFormed)
    \/ \E ok \in BOOLEAN : Dispatch(ok)
    \/ AnalyseTicker

LoopSpec == LoopInit /\ [][LoopNext]_loopVars

\* Every chat and every tool call has a timeout, so each of them ends.
FairLoopSpec == LoopSpec /\ WF_loopVars(LoopNext)

-----------------------------------------------------------------------------
(***************************************************************************)
(* Properties.                                                             *)
(***************************************************************************)

\* Every chat request is one the provider can accept, whatever failed or was
\* refused: a tool call is answered by one result before its id is used again and
\* before the next answer's calls, and a result answers a call.
Answers(s, i, j) ==
    /\ i < j /\ s[i].role = "call" /\ s[j].role = "result"
    /\ s[i].id = s[j].id
    /\ \A k \in i + 1 .. j - 1 : s[k].id # s[i].id
    /\ \A k, l \in i .. j : k < l /\ s[k].role = "result" => s[l].role = "result"

RequestsWellFormed ==
    phase = "chat" => \A m \in DOMAIN messages :
        \E other \in DOMAIN messages : Answers(messages, m, other) \/ Answers(messages, other, m)

\* The model never has a write path: whatever names it invents, whatever the
\* server exposes, and whatever the allowlist says, provided that the list knows
\* the writing tools, no tool that writes reaches the server in the loop.
OnlyReadsServed == WriteTools \subseteq allowlist.write => served \cap WriteTools = {}

\* A refusal that no waiting improves: neither a rate limit, which a 413 may stand
\* for (llm.py:136), nor a time-out, a conflict or a server in trouble.
RateLimited(f) == f.status = 429 \/ (f.status = 413 /\ f.limited)

Settled(f) ==
    ~ RateLimited(f) /\ f.status \notin {408, 409, 500, 502, 503, 504, 520, 522, 524}

GaveUp(p) == failed[p].attempt = MaxAttempts \/ (failed[p].attempt > 0 /\ Settled(failed[p].failure))

\* Nobody else is asked, and no analysis ends in an error, before every provider in
\* front has failed for good in this chat: by a settled refusal, no answer, or its
\* last attempt ("Raises LLMError only when every configured provider has failed",
\* llm.py:417).  A provider is not asked again before the time it asked for, unless
\* that is more than the client ever waits.  And the journal's switches are the
\* turns that another than the first provider drove.
FailoverIsEarned ==
    /\ phase = "chat" => \A i \in Available : i < provider => GaveUp(Chain[i])
    /\ ending = "error" => \A i \in Available : GaveUp(Chain[i])
    /\ phase = "chat" /\ attempt > 1 =>
          LET asked == RetryAfter(failed[Chain[provider]].failure)
          IN  asked # 0 => delay >= Smaller(asked, MaxBackoff)
    /\ switches = {a \in answeredBy : a.provider # Chain[First]}

\* Every analysis ends: with a proposal, without one, or in an error.
AnalysisEnds == phase # "ended" ~> phase = "ended"

(***************************************************************************)
(* What the documentation says and the client does not do.                 *)
(***************************************************************************)

\* "it is kept here, keyed by tool-call id, and re-attached on the way out"
\* (llm.py:251): a call that Gemini signed goes back to it with that signature.
SignaturesComeBack ==
    phase = "chat" /\ Available # {} /\ Chain[provider] = "gemini" =>
        \A i \in DOMAIN messages :
            messages[i].role = "call" /\ messages[i].signature # Unsigned
                => Attached(messages[i]) = messages[i].signature
=============================================================================
