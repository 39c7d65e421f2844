------------------------------- MODULE Agent --------------------------------
(***************************************************************************)
(* A chat request: handle_chat adds the question to a conversation and     *)
(* agent_turn asks the engine, runs the tools it calls for and asks again, *)
(* until it answers in text or max_rounds is reached.  In front of the     *)
(* engine stands a cache of answers to questions that open a conversation. *)
(*                                                                         *)
(* The map of conversations has a lock, a conversation has none: the       *)
(* messages of requests that name the same one at the same time interleave *)
(* in its vector, or get lost in the race.  Such a conversation is Mixed   *)
(* from then on, whatever it holds.                                        *)
(***************************************************************************)
EXTENDS Integers, Sequences, FiniteSets

CONSTANTS
    ChatThreads,    \* threads that run agent_turn
    Conversations,  \* conversation ids in use
    Questions,      \* what users ask, numbers from 1
    MaxRounds,      \* max_rounds
    MaxCalls,       \* bound on the tool calls of one answer
    CacheTTL,       \* SEMANTIC_CACHE_TTL_SECONDS
    CacheEntries,   \* SEMANTIC_CACHE_MAX_ENTRIES
    MaxChats,       \* bound on the requests made
    ChatEnd         \* bound on the clock

ASSUME AgentAssumption ==
    /\ Conversations # {}
    /\ Questions \subseteq Nat \ {0} /\ IsFiniteSet(Questions)
    /\ MaxRounds \in Nat \ {0} /\ MaxCalls \in Nat \ {0}
    /\ CacheTTL \in Nat /\ CacheEntries \in Nat \ {0}
    /\ MaxChats \in Nat /\ ChatEnd \in Nat

VARIABLES
    agConv,    \* messages_ of each conversation
    agTurn,    \* what each thread is doing
    agCache,   \* g_semantic_cache: for each question when it was answered, and what
               \* the engine was shown
    agNow, agChats

agVars == <<agConv, agTurn, agCache, agNow, agChats>>

\* A message: a question, a text, a list of n tool calls, or the result of the i-th call.
Message(role, n) == [role |-> role, n |-> n]
Messages == [role: {"user", "text", "calls", "tool", "mixed"}, n: Nat]
Mixed == <<Message("mixed", 0)>>

\* alone is the question when it is the only message of the request, else 0.
NoTurn == [pc |-> "idle", conv |-> CHOOSE c \in Conversations : TRUE, round |-> 0,
           alone |-> 0, calls |-> 0, done |-> 0]
Empty == [time |-> -1, alone |-> 0]

Busy(c) == {r \in ChatThreads : agTurn[r].pc # "idle" /\ agTurn[r].conv = c}
SetTurn(r, t) == agTurn' = [agTurn EXCEPT ![r] = t]

\* messages_.push_back
Push(r, c, m) ==
    agConv' = [agConv EXCEPT ![c] =
                  IF @ = Mixed \/ Busy(c) \ {r} # {} THEN Mixed ELSE Append(@, m)]

-----------------------------------------------------------------------------
ChatStart(r, c, q) ==
    /\ agTurn[r].pc = "idle" /\ agChats < MaxChats
    /\ agChats' = agChats + 1
    /\ Push(r, c, Message("user", q))
    /\ SetTurn(r, [NoTurn EXCEPT !.pc = "ask", !.conv = c])
    /\ UNCHANGED <<agCache, agNow>>

\* build_inference_request and semantic_cache_lookup: only a request with one message is
\* looked up, and an entry that is too old is erased.
Alone(c) == IF agConv[c] = Mixed THEN Questions \union {0}
            ELSE IF Len(agConv[c]) = 1 THEN {agConv[c][1].n} ELSE {0}
Fresh(q) == agCache[q].time >= 0 /\ agNow - agCache[q].time <= CacheTTL

CacheHit(r) ==
    /\ agTurn[r].pc = "ask"
    /\ \E q \in Alone(agTurn[r].conv) \ {0} : Fresh(q)
    /\ Push(r, agTurn[r].conv, Message("text", 0))
    /\ SetTurn(r, NoTurn)
    /\ UNCHANGED <<agCache, agNow, agChats>>

Ask(r) ==
    /\ agTurn[r].pc = "ask"
    /\ \E q \in Alone(agTurn[r].conv) :
          /\ q # 0 => ~Fresh(q)
          /\ agCache' = [agCache EXCEPT ![q] = Empty]
          /\ SetTurn(r, [agTurn[r] EXCEPT !.pc = "wait", !.alone = q])
    /\ UNCHANGED <<agConv, agNow, agChats>>

\* agent_turn cuts a long result after 4000 bytes, also inside a character, and
\* build_inference_request, which is outside of its try block, then throws at every request of
\* that conversation.  Which results were cut that way is left open.
Unsendable(c) == \E k \in DOMAIN agConv[c] : agConv[c][k].role \in {"tool", "mixed"}

\* The HTTP library answers with an error: the turn ends without a message.
RequestThrows(r) ==
    /\ agTurn[r].pc = "ask" /\ Unsendable(agTurn[r].conv)
    /\ SetTurn(r, NoTurn)
    /\ UNCHANGED <<agConv, agCache, agNow, agChats>>

\* When the answer is a stream, the turn runs in the content provider, where the library
\* catches nothing: the process ends, with all that it had in memory.
ProcessAborts(r) ==
    /\ agTurn[r].pc = "ask" /\ Unsendable(agTurn[r].conv)
    /\ agConv' = [c \in Conversations |-> <<>>]
    /\ agTurn' = [t \in ChatThreads |-> NoTurn]
    /\ agCache' = [q \in Questions \union {0} |-> Empty]
    /\ UNCHANGED <<agNow, agChats>>

\* The engine is unreachable or fails, inference_fn throws, or no model is loaded and the
\* stub answers: the text goes to the user and into the conversation, not into the cache.
AnswerWithoutEngine(r) ==
    /\ agTurn[r].pc \in {"ask", "wait"}
    /\ Push(r, agTurn[r].conv, Message("text", 0))
    /\ SetTurn(r, NoTurn)
    /\ UNCHANGED <<agCache, agNow, agChats>>

\* Mutant of Stored: nothing is evicted at capacity.
Stored_NoEviction(q, entry) == [agCache EXCEPT ![q] = entry]

\* semantic_cache_store: at capacity the oldest entry goes, even when the key is there.
Stored(q, entry) ==
    LET present == {k \in Questions : agCache[k].time >= 0}
        oldest == CHOOSE k \in present : \A j \in present : agCache[k].time <= agCache[j].time
        room == IF Cardinality(present) >= CacheEntries
                THEN [agCache EXCEPT ![oldest] = Empty] ELSE agCache IN
    [room EXCEPT ![q] = entry]

\* The engine answers in text, after a second attempt with a grammar when the first one held
\* a malformed call; what is left of the text may be empty, and is cached all the same.
AnswerText(r) ==
    LET t == agTurn[r] IN
    /\ t.pc = "wait"
    /\ agCache' = IF t.alone # 0
                  THEN Stored(t.alone, [time |-> agNow, alone |-> t.alone])
                  ELSE agCache
    /\ Push(r, t.conv, Message("text", 0))
    /\ SetTurn(r, NoTurn)
    /\ UNCHANGED <<agNow, agChats>>

\* The engine calls for n tools.
AnswerCalls(r, n) ==
    /\ agTurn[r].pc = "wait"
    /\ Push(r, agTurn[r].conv, Message("calls", n))
    /\ SetTurn(r, [agTurn[r] EXCEPT !.pc = "tools", !.calls = n, !.done = 0])
    /\ UNCHANGED <<agCache, agNow, agChats>>

\* Mutant of ToolResult: rounds are not counted.
ToolResult_Forever(r) ==
    LET t == agTurn[r]
        last == t.done + 1 = t.calls IN
    /\ t.pc = "tools"
    /\ Push(r, t.conv, Message("tool", t.done + 1))
    /\ SetTurn(r, IF ~last THEN [t EXCEPT !.done = @ + 1]
                  ELSE [t EXCEPT !.pc = "ask", !.alone = 0, !.calls = 0, !.done = 0])
    /\ UNCHANGED <<agCache, agNow, agChats>>

\* Mutant of ToolResult: only the first call is dispatched.
ToolResult_FirstOnly(r) ==
    LET t == agTurn[r] IN
    /\ t.pc = "tools"
    /\ Push(r, t.conv, Message("tool", 1))
    /\ SetTurn(r, IF t.round + 1 < MaxRounds
                  THEN [t EXCEPT !.pc = "ask", !.round = @ + 1, !.alone = 0, !.calls = 0,
                                 !.done = 0]
                  ELSE NoTurn)
    /\ UNCHANGED <<agCache, agNow, agChats>>

\* ToolRegistry::dispatch answers for every name, whatever the tool does; an unknown tool,
\* one that needs confirmation and one that throws give an error for a result.  After the
\* last call the next round begins, if there is one.
ToolResult(r) ==
    LET t == agTurn[r]
        last == t.done + 1 = t.calls IN
    /\ t.pc = "tools"
    /\ Push(r, t.conv, Message("tool", t.done + 1))
    /\ SetTurn(r, IF ~last THEN [t EXCEPT !.done = @ + 1]
                  ELSE IF t.round + 1 < MaxRounds
                  THEN [t EXCEPT !.pc = "ask", !.round = @ + 1, !.alone = 0, !.calls = 0,
                                 !.done = 0]
                  ELSE NoTurn)
    /\ UNCHANGED <<agCache, agNow, agChats>>

ChatTick ==
    /\ agNow < ChatEnd
    /\ agNow' = agNow + 1
    /\ UNCHANGED <<agConv, agTurn, agCache, agChats>>

-----------------------------------------------------------------------------
\* Mutant of Truncate: leading results are not removed.
Truncate_KeepsOrphans(s, n) == IF Len(s) <= n THEN s ELSE SubSeq(s, Len(s) - n + 1, Len(s))

\* ConversationState::truncate keeps the last n messages, and of these nothing before the
\* first question or text.
Truncate(s, n) ==
    LET recent == SubSeq(s, Len(s) - n + 1, Len(s))
        heads == {k \in DOMAIN recent : recent[k].role \in {"user", "text"}} IN
    IF Len(s) <= n THEN s
    ELSE IF heads = {} THEN <<>>
    ELSE SubSeq(recent, CHOOSE k \in heads : \A j \in heads : k <= j, Len(recent))

-----------------------------------------------------------------------------
ChatBlank ==
    /\ agConv = [c \in Conversations |-> <<>>]
    /\ agTurn = [r \in ChatThreads |-> NoTurn]
    /\ agCache = [q \in Questions \union {0} |-> Empty]

AgentInit == ChatBlank /\ agNow = 0 /\ agChats = 0

TurnStep(r) ==
    \/ CacheHit(r) \/ Ask(r) \/ RequestThrows(r) \/ ProcessAborts(r)
    \/ AnswerWithoutEngine(r) \/ AnswerText(r) \/ ToolResult(r)
    \/ \E n \in 1..MaxCalls : AnswerCalls(r, n)

AgentNext ==
    \/ \E r \in ChatThreads, c \in Conversations, q \in Questions : ChatStart(r, c, q)
    \/ \E r \in ChatThreads : TurnStep(r)
    \/ ChatTick

AgentSpec == AgentInit /\ [][AgentNext]_agVars

\* The type of the state; rounds and calls stay within their limits (agent_turn).
AgentTypeOK ==
    /\ agConv \in [Conversations -> Seq(Messages)]
    /\ agTurn \in [ChatThreads ->
          [pc: {"idle", "ask", "wait", "tools"}, conv: Conversations, round: 0..(MaxRounds - 1),
           alone: Questions \union {0}, calls: 0..MaxCalls, done: 0..MaxCalls]]
    /\ agCache \in [Questions \union {0} ->
          [time: -1..ChatEnd, alone: Questions \union {0}]]
    /\ agNow \in 0..ChatEnd /\ agChats \in 0..MaxChats

\* Each list of calls is followed by its results, in order, and no result stands elsewhere;
\* at the end of the transcript some may be to come.
Paired(s) ==
    /\ \A k \in DOMAIN s : s[k].role = "tool" =>
          k > 1 /\ s[k - 1].role = (IF s[k].n = 1 THEN "calls" ELSE "tool")
                /\ (s[k].n > 1 => s[k - 1].n = s[k].n - 1)
    /\ \A k \in DOMAIN s : s[k].role = "calls" =>
          \A i \in 1..s[k].n : k + i <= Len(s) => s[k + i] = Message("tool", i)
Answered(s) ==
    \A k \in DOMAIN s : s[k].role = "calls" => k + s[k].n <= Len(s)

\* The transcript the engine is shown is a legal one as long as requests take turns on a
\* conversation: every tool call is answered by its own results and no turn, also one that
\* runs out of rounds or fails, leaves a call without them (agent_turn).
TranscriptsPaired ==
    \A c \in Conversations : agConv[c] # Mixed =>
        Paired(agConv[c]) /\ (Busy(c) = {} => Answered(agConv[c]))

\* Cutting a transcript to any length leaves a legal one of at most that length, without
\* results whose calls are gone (ConversationState::truncate).
TruncateKeepsPairs ==
    \A c \in Conversations : agConv[c] # Mixed /\ Busy(c) = {} =>
        \A n \in 0..Len(agConv[c]) :
            LET s == Truncate(agConv[c], n) IN
            Len(s) <= n /\ Paired(s) /\ Answered(s)

\* The cache never grows past its bound, and what it holds for a question was generated by
\* the engine from that question alone, also when other requests changed the conversation
\* while the engine was working (semantic_cache_store).
CacheIsSound ==
    /\ Cardinality({q \in Questions : agCache[q].time >= 0}) <= CacheEntries
    /\ \A q \in Questions : agCache[q].time >= 0 => agCache[q].alone = q

\* Every chat request ends, however many tools the model calls for: each step of its thread,
\* the engine's answer, its timeout after 300 s and an exception among them, brings the end
\* nearer by a measure that the rounds and the calls of an answer bound (agent_turn).
Remaining(t) ==
    CASE t.pc = "idle" -> 0
      [] t.pc = "ask" -> (MaxRounds - t.round) * (MaxCalls + 3) + MaxCalls + 2
      [] t.pc = "wait" -> (MaxRounds - t.round) * (MaxCalls + 3) + MaxCalls + 1
      [] t.pc = "tools" -> (MaxRounds - t.round) * (MaxCalls + 3) + t.calls - t.done
TurnsEnd ==
    [][\A r \in ChatThreads : agTurn[r].pc # "idle" /\ agTurn'[r] # agTurn[r]
          => Remaining(agTurn'[r]) < Remaining(agTurn[r])]_agVars

\* What the chat keeps from one request to the next is sound, transcripts also when they are
\* cut, and no request goes on for ever (agent_turn, semantic_cache_store).
ChatSound ==
    /\ [](TranscriptsPaired /\ TruncateKeepsPairs /\ CacheIsSound)
    /\ TurnsEnd
=============================================================================
