---------------------------- MODULE ChatEvents ----------------------------
(***************************************************************************)
(* The vocabulary of the upstream event stream (executor.go, "upstream     *)
(* event decoding"): what one decoded NDJSON line can be, as far as the    *)
(* converter (StreamConverter) and the assembler (Assembler) tell lines    *)
(* apart.                                                                  *)
(*                                                                         *)
(* Abstractions.  Of the bytes of a text, delta, input, name or usage      *)
(* block the code looks at whether they are there, at whether an argument  *)
(* fragment is white space and at whether the reasoning tokens are more    *)
(* than zero, so an event carries flags; a payload, a name and a block are *)
(* named by the position of the event that brought them.                   *)
(* toolCallId and id are already resolved to toolID().  A                  *)
(* line that stripSSEPrefix drops, that does not parse, or whose type the  *)
(* code does not know is the event "noise".                                *)
(***************************************************************************)
EXTENDS Naturals

CONSTANTS
    ToolIds,  \* the non-empty tool ids upstream uses
    NoId      \* the empty id: neither toolCallId nor id is set

ASSUME NoIdAssumption == NoId \notin ToolIds

TextTypes  == {"reasoning-delta", "text-delta"}
StartTypes == {"tool-input-start", "tool-call-start"}
DeltaTypes == {"tool-input-delta", "tool-call-delta"}
IgnoredByStream == {"tool-call", "tool-result", "noise"}

EventTypes == TextTypes \cup StartTypes \cup DeltaTypes \cup IgnoredByStream
                \cup {"finish-step", "finish", "error"}

\* Finish reasons after ToLower and TrimSpace.  "" is an absent reason and
\* "other" stands for every word the code does not list.
UpstreamReasons == {"", "other", "length", "max_tokens", "max-tokens",
                    "tool-calls", "tool_calls", "tool_use", "tool-use",
                    "content-filter", "content_filter"}
FinishReasons   == {"stop", "length", "tool_calls", "content_filter"}

Event == [type    : EventTypes,
          id      : ToolIds \cup {NoId},
          payload : BOOLEAN,   \* text, delta or input is not empty
          blank   : BOOLEAN,   \* that payload is white space
          named   : BOOLEAN,   \* toolName is not empty
          usage   : BOOLEAN,   \* the event has a usage block
          total   : BOOLEAN,   \* the event has a totalUsage block
          reasoned : BOOLEAN,  \* the block that is read counts reasoning tokens
          reason  : UpstreamReasons]

\* Mutant of MapFinishReason: the upstream word is passed on.
UpstreamReason(r) == r

MapFinishReason(r) ==
    CASE r \in {"length", "max_tokens", "max-tokens"} -> "length"
      [] r \in {"tool-calls", "tool_calls", "tool_use", "tool-use"} -> "tool_calls"
      [] r \in {"content-filter", "content_filter"} -> "content_filter"
      [] OTHER -> "stop"

\* A usage block: the event that carried it and the field, which stand for its
\* input, output and total tokens, and whether it counts reasoning tokens.
UsageBlock(k, isTotal, reasoned) == [src |-> k, total |-> isTotal, reasoned |-> reasoned]
NoUsage == [src |-> 0, total |-> FALSE, reasoned |-> FALSE]

\* The name of a tool in the k-th event, 0 for none.
NameIn(e, k) == IF e.named THEN k ELSE 0

(***************************************************************************)
(* Constructors for the sets of inputs that model checking uses.           *)
(***************************************************************************)
Plain(type) == [type |-> type, id |-> NoId, payload |-> FALSE, blank |-> FALSE,
                named |-> FALSE, usage |-> FALSE, total |-> FALSE,
                reasoned |-> FALSE, reason |-> ""]
TextEvents(payloads) ==
    {[Plain(t) EXCEPT !.payload = p] : t \in TextTypes, p \in payloads}
ToolEvents(types, ids, payloads) ==
    {[Plain(t) EXCEPT !.id = i, !.payload = p] :
        t \in types, i \in ids, p \in payloads}
NamedToo(events) == events \cup {[e EXCEPT !.named = TRUE] : e \in events}
BlankToo(events) == events \cup {[e EXCEPT !.blank = TRUE] : e \in events}
ReasonedToo(events) ==
    events \cup {[e EXCEPT !.reasoned = TRUE] : e \in {f \in events : f.usage \/ f.total}}
StepEvents == ReasonedToo({[Plain("finish-step") EXCEPT !.usage = u] : u \in BOOLEAN})
FinishEvents(reasons) ==
    ReasonedToo({[Plain("finish") EXCEPT !.usage = u, !.total = t, !.reason = r] :
                    u \in BOOLEAN, t \in BOOLEAN, r \in reasons})
=============================================================================
