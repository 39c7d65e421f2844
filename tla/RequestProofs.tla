--------------------------- MODULE RequestProofs ---------------------------
(***************************************************************************)
(* Proofs about what the requests of users meet: the password, the         *)
(* sessions and the limit on failed logins (Auth), the API key and the     *)
(* sessions of the MCP server (Mcp), and the chat (Agent); for any number  *)
(* of threads, passwords, tokens, conversations and requests.              *)
(***************************************************************************)
EXTENDS Auth, Mcp, Agent, FiniteSetTheorems, WellFoundedInduction, TLAPS

-----------------------------------------------------------------------------
(* Agent: types *)

Turns ==
    [pc: {"idle", "ask", "wait", "tools"}, conv: Conversations, round: 0..(MaxRounds - 1),
     alone: Questions \union {0}, calls: 0..MaxCalls, done: 0..MaxCalls]
Entries == [time: -1..ChatEnd, alone: Questions \union {0}]

\* A thread that has calls to make has made fewer than it was asked for.
TurnInv == \A r \in ChatThreads : agTurn[r].pc = "tools" => agTurn[r].done < agTurn[r].calls

\* A conversation begins with a question, and one that a thread works on has begun.
Opened(s) == s # <<>> /\ (s # Mixed => \E q \in Questions : s[1] = Message("user", q))
OpenInv ==
    \A c \in Conversations :
        /\ agConv[c] = <<>> \/ Opened(agConv[c])
        /\ Busy(c) # {} => agConv[c] # <<>>

AgentBase == AgentTypeOK /\ TurnInv /\ OpenInv

LEMMA AgentFacts ==
  /\ NoTurn \in Turns /\ NoTurn.pc = "idle" /\ NoTurn.alone = 0 /\ Empty \in Entries
  /\ Empty.time = -1 /\ Mixed \in Seq(Messages) /\ Len(Mixed) = 1 /\ Mixed[1].role = "mixed" /\ Mixed # <<>>
  /\ MaxRounds \in Nat \ {0} /\ MaxCalls \in Nat \ {0} /\ Questions \subseteq Nat \ {0}
  /\ 0 \notin Questions /\ ChatEnd \in Nat /\ MaxChats \in Nat
<1>1. (CHOOSE c \in Conversations : TRUE) \in Conversations
  BY AgentAssumption
<1>2. NoTurn \in Turns
  BY <1>1, AgentAssumption DEF NoTurn, Turns
<1>3. Mixed \in Seq(Messages) /\ Len(Mixed) = 1 /\ Mixed[1].role = "mixed" /\ Mixed # <<>>
  BY DEF Mixed, Message, Messages
<1>4. Empty \in Entries
  BY AgentAssumption DEF Empty, Entries
<1>5. NoTurn.pc = "idle" /\ NoTurn.alone = 0 /\ Empty.time = -1
  BY DEF NoTurn, Empty
<1> QED
  BY <1>2, <1>3, <1>4, <1>5, AgentAssumption

\* Messages that are added.
LEMMA PushType ==
  ASSUME agConv \in [Conversations -> Seq(Messages)], NEW r \in ChatThreads,
         NEW c \in Conversations, NEW m \in Messages, Push(r, c, m)
  PROVE  /\ agConv' \in [Conversations -> Seq(Messages)]
         /\ \A d \in Conversations \ {c} : agConv'[d] = agConv[d]
         /\ agConv'[c] = IF agConv[c] = Mixed \/ Busy(c) \ {r} # {} THEN Mixed
                         ELSE Append(agConv[c], m)
<1>1. Append(agConv[c], m) \in Seq(Messages) /\ Mixed \in Seq(Messages)
  BY AgentFacts
<1> QED
  BY <1>1 DEF Push

LEMMA MessageTypes ==
  /\ \A q \in Questions : Message("user", q) \in Messages
  /\ Message("text", 0) \in Messages
  /\ \A n \in Nat : Message("calls", n) \in Messages /\ Message("tool", n) \in Messages
  BY AgentFacts DEF Message, Messages

\* A thread's turn goes on.
LEMMA TurnForms ==
  ASSUME NEW t \in Turns
  PROVE  /\ \A c \in Conversations : [NoTurn EXCEPT !.pc = "ask", !.conv = c] \in Turns
         /\ \A q \in Questions \union {0} : [t EXCEPT !.pc = "wait", !.alone = q] \in Turns
         /\ \A n \in 1..MaxCalls : [t EXCEPT !.pc = "tools", !.calls = n, !.done = 0] \in Turns
         /\ t.done < t.calls => [t EXCEPT !.done = @ + 1] \in Turns
         /\ t.round + 1 < MaxRounds => [t EXCEPT !.pc = "ask", !.round = @ + 1, !.alone = 0,
                                                 !.calls = 0, !.done = 0] \in Turns
<1>1. MaxRounds \in Nat /\ MaxCalls \in Nat
  BY AgentAssumption
<1>2. ASSUME NEW c \in Conversations PROVE [NoTurn EXCEPT !.pc = "ask", !.conv = c] \in Turns
  BY AgentFacts DEF Turns
<1>3. ASSUME NEW q \in Questions \union {0} PROVE [t EXCEPT !.pc = "wait", !.alone = q] \in Turns
  BY DEF Turns
<1>4. ASSUME NEW n \in 1..MaxCalls PROVE [t EXCEPT !.pc = "tools", !.calls = n, !.done = 0] \in Turns
  <2>1. n \in 0..MaxCalls /\ 0 \in 0..MaxCalls
    BY <1>1
  <2> QED
    BY <2>1 DEF Turns
<1>5. ASSUME t.done < t.calls PROVE [t EXCEPT !.done = @ + 1] \in Turns
  <2>1. t.done + 1 \in 0..MaxCalls
    BY <1>1, <1>5 DEF Turns
  <2> QED
    BY <2>1 DEF Turns
<1>6. ASSUME t.round + 1 < MaxRounds
      PROVE  [t EXCEPT !.pc = "ask", !.round = @ + 1, !.alone = 0, !.calls = 0, !.done = 0] \in Turns
  <2>1. t.round + 1 \in 0..(MaxRounds - 1) /\ 0 \in 0..MaxCalls
    BY <1>1, <1>6 DEF Turns
  <2> QED
    BY <2>1 DEF Turns
<1> QED
  BY <1>2, <1>3, <1>4, <1>5, <1>6

LEMMA TurnFields ==
  ASSUME AgentTypeOK, NEW r \in ChatThreads
  PROVE  /\ agTurn[r] \in Turns /\ agTurn[r].conv \in Conversations
         /\ agTurn[r].alone \in Questions \union {0} /\ agTurn[r].done \in Nat
         /\ agTurn[r].calls \in Nat /\ agTurn[r].round \in Nat
         /\ agTurn[r].calls <= MaxCalls /\ agTurn[r].round < MaxRounds
  BY AgentAssumption DEF AgentTypeOK, Turns

\* The parts of the type, with what the cases below use.
TurnsOK == agTurn \in [ChatThreads -> Turns]
ConvOK == agConv \in [Conversations -> Seq(Messages)]
CacheOK == agCache \in [Questions \union {0} -> Entries]
ClockOK == agNow \in 0..ChatEnd /\ agChats \in 0..MaxChats

LEMMA AgentTypeIs == AgentTypeOK <=> TurnsOK /\ ConvOK /\ CacheOK /\ ClockOK
  BY DEF AgentTypeOK, TurnsOK, ConvOK, CacheOK, ClockOK, Turns, Entries

\* Nothing in memory: so it is at first, and after the process has ended.
LEMMA BlankBase == ChatBlank => TurnsOK /\ ConvOK /\ CacheOK /\ TurnInv /\ OpenInv
<1> SUFFICES ASSUME ChatBlank PROVE TurnsOK /\ ConvOK /\ CacheOK /\ TurnInv /\ OpenInv
  OBVIOUS
<1>1. TurnsOK /\ ConvOK /\ CacheOK
  BY AgentFacts DEF ChatBlank, TurnsOK, ConvOK, CacheOK
<1>2. TurnInv /\ \A r \in ChatThreads : agTurn[r].pc = "idle"
  BY AgentFacts DEF ChatBlank, TurnInv
<1>3. OpenInv
  BY <1>2 DEF ChatBlank, OpenInv, Busy
<1> QED
  BY <1>1, <1>2, <1>3

LEMMA AgentBaseInit == AgentInit => AgentBase
<1> SUFFICES ASSUME AgentInit PROVE AgentBase
  OBVIOUS
<1>1. TurnsOK /\ ConvOK /\ CacheOK /\ TurnInv /\ OpenInv
  BY BlankBase DEF AgentInit
<1>2. ClockOK
  BY AgentFacts DEF AgentInit, ClockOK
<1> QED
  BY <1>1, <1>2, AgentTypeIs DEF AgentBase

LEMMA AbortBlanks ==
  ASSUME NEW r \in ChatThreads, ProcessAborts(r) PROVE ChatBlank' /\ UNCHANGED <<agNow, agChats>>
  BY DEF ProcessAborts, ChatBlank

\* One thread moves on in its turn.
Turned(r) == \A s \in ChatThreads \ {r} : agTurn'[s] = agTurn[s]

LEMMA SetTurnIs ==
  ASSUME TurnsOK, NEW r \in ChatThreads, NEW t \in Turns, SetTurn(r, t)
  PROVE  TurnsOK' /\ agTurn'[r] = t /\ Turned(r)
  BY DEF TurnsOK, SetTurn, Turned

\* The question that is looked up in the cache is one, or 0.
LEMMA AloneType ==
  ASSUME AgentBase, NEW c \in Conversations, Busy(c) # {}
  PROVE  Alone(c) \subseteq Questions \union {0}
<1>1. Opened(agConv[c]) \/ agConv[c] = Mixed
  BY DEF AgentBase, OpenInv
<1>2. CASE agConv[c] = Mixed
  BY <1>2 DEF Alone
<1>3. CASE agConv[c] # Mixed /\ Len(agConv[c]) = 1
  <2>1. PICK q \in Questions : agConv[c][1] = Message("user", q)
    BY <1>1, <1>3 DEF Opened
  <2>2. agConv[c][1].n = q
    BY <2>1 DEF Message
  <2> QED
    BY <1>3, <2>2 DEF Alone
<1> QED
  BY <1>2, <1>3 DEF Alone

\* What each step does to turns, conversations and cache.
LEMMA AgentTypeNext == AgentBase /\ [AgentNext]_agVars => AgentTypeOK'
<1> SUFFICES ASSUME AgentBase, [AgentNext]_agVars PROVE AgentTypeOK'
  OBVIOUS
<1>a. TurnsOK /\ ConvOK /\ CacheOK /\ ClockOK /\ TurnInv
  BY AgentTypeIs DEF AgentBase
<1>b. \A r \in ChatThreads : agTurn[r] \in Turns /\ agTurn[r].conv \in Conversations
  BY <1>a, TurnFields, AgentTypeIs
<1>c. (TurnsOK /\ ConvOK /\ CacheOK /\ ClockOK)' => AgentTypeOK'
  BY DEF AgentTypeOK, TurnsOK, ConvOK, CacheOK, ClockOK, Turns, Entries
<1>d. ASSUME NEW r \in ChatThreads, NEW c \in Conversations, NEW m \in Messages, Push(r, c, m)
      PROVE  ConvOK'
  BY <1>d, <1>a, PushType DEF ConvOK
<1>e. NoTurn \in Turns /\ Message("text", 0) \in Messages
  BY AgentFacts, MessageTypes
<1>1. ASSUME NEW r \in ChatThreads, NEW c \in Conversations, NEW q \in Questions, ChatStart(r, c, q)
      PROVE  AgentTypeOK'
  <2>1. TurnsOK' /\ ConvOK'
    BY <1>1, <1>a, <1>b, <1>d, TurnForms, SetTurnIs, MessageTypes DEF ChatStart
  <2>2. CacheOK' /\ ClockOK'
    BY <1>1, <1>a, AgentFacts DEF ChatStart, CacheOK, ClockOK
  <2> QED
    BY <1>c, <2>1, <2>2
<1>2. ASSUME NEW r \in ChatThreads, CacheHit(r) \/ AnswerWithoutEngine(r) PROVE AgentTypeOK'
  <2>1. TurnsOK' /\ ConvOK'
    BY <1>2, <1>a, <1>b, <1>d, <1>e, SetTurnIs DEF CacheHit, AnswerWithoutEngine
  <2>2. CacheOK' /\ ClockOK'
    BY <1>2, <1>a DEF CacheHit, AnswerWithoutEngine, CacheOK, ClockOK
  <2> QED
    BY <1>c, <2>1, <2>2
<1>3. ASSUME NEW r \in ChatThreads, Ask(r) PROVE AgentTypeOK'
  <2>1. PICK q \in Alone(agTurn[r].conv) :
           /\ agCache' = [agCache EXCEPT ![q] = Empty]
           /\ SetTurn(r, [agTurn[r] EXCEPT !.pc = "wait", !.alone = q])
    BY <1>3 DEF Ask
  <2>2. r \in Busy(agTurn[r].conv)
    BY <1>3 DEF Ask, Busy
  <2>3. q \in Questions \union {0}
    BY <2>1, <2>2, <1>b, AloneType
  <2>4. TurnsOK'
    BY <2>1, <2>3, <1>a, <1>b, TurnForms, SetTurnIs
  <2>5. CacheOK'
    BY <2>1, <2>3, <1>a, AgentFacts DEF CacheOK
  <2>6. ConvOK' /\ ClockOK'
    BY <1>3, <1>a DEF Ask, ConvOK, ClockOK
  <2> QED
    BY <1>c, <2>4, <2>5, <2>6
<1>4. ASSUME NEW r \in ChatThreads, AnswerText(r) PROVE AgentTypeOK'
  <2>1. TurnsOK' /\ ConvOK'
    BY <1>4, <1>a, <1>b, <1>d, <1>e, SetTurnIs DEF AnswerText
  <2>2. agTurn[r].alone \in Questions \union {0}
    BY <1>a, TurnFields, AgentTypeIs
  <2>3. ASSUME agTurn[r].alone # 0 PROVE CacheOK'
    <3> DEFINE e == [time |-> agNow, alone |-> agTurn[r].alone]
               present == {k \in Questions : agCache[k].time >= 0}
               oldest == CHOOSE k \in present : \A j \in present : agCache[k].time <= agCache[j].time
               room == IF Cardinality(present) >= CacheEntries
                       THEN [agCache EXCEPT ![oldest] = Empty] ELSE agCache
    <3>1. e \in Entries
      BY <1>a, <2>2, AgentFacts DEF Entries, ClockOK
    <3>2. room \in [Questions \union {0} -> Entries]
      <4> HIDE DEF present, oldest
      <4> QED
        BY <1>a, AgentFacts DEF CacheOK
    <3>3. agCache' = [room EXCEPT ![agTurn[r].alone] = e]
      BY <1>4, <2>3 DEF AnswerText, Stored
    <3> HIDE DEF e, room
    <3> QED
      BY <3>1, <3>2, <3>3, <2>2 DEF CacheOK
  <2>4. CacheOK' /\ ClockOK'
    BY <1>4, <1>a, <2>3 DEF AnswerText, CacheOK, ClockOK
  <2> QED
    BY <1>c, <2>1, <2>4
<1>5. ASSUME NEW r \in ChatThreads, NEW n \in 1..MaxCalls, AnswerCalls(r, n) PROVE AgentTypeOK'
  <2>1. n \in Nat
    OBVIOUS
  <2>2. TurnsOK' /\ ConvOK'
    BY <1>5, <1>a, <1>b, <1>d, <2>1, TurnForms, SetTurnIs, MessageTypes DEF AnswerCalls
  <2>3. CacheOK' /\ ClockOK'
    BY <1>5, <1>a DEF AnswerCalls, CacheOK, ClockOK
  <2> QED
    BY <1>c, <2>2, <2>3
<1>6. ASSUME NEW r \in ChatThreads, ToolResult(r) PROVE AgentTypeOK'
  <2>1. agTurn[r].done + 1 \in Nat /\ agTurn[r].done < agTurn[r].calls
    BY <1>6, <1>a, TurnFields, AgentTypeIs DEF ToolResult, TurnInv
  <2>2. ConvOK'
    BY <1>6, <1>b, <1>d, <2>1, MessageTypes DEF ToolResult
  <2>3. TurnsOK'
    BY <1>6, <1>a, <1>b, <1>e, <2>1, TurnForms, SetTurnIs DEF ToolResult
  <2>4. CacheOK' /\ ClockOK'
    BY <1>6, <1>a DEF ToolResult, CacheOK, ClockOK
  <2> QED
    BY <1>c, <2>2, <2>3, <2>4
<1>7. CASE ChatTick \/ UNCHANGED agVars
  <2>1. TurnsOK' /\ ConvOK' /\ CacheOK' /\ ClockOK'
    BY <1>7, <1>a, AgentFacts DEF ChatTick, agVars, TurnsOK, ConvOK, CacheOK, ClockOK
  <2> QED
    BY <1>c, <2>1
<1>8. ASSUME NEW r \in ChatThreads, RequestThrows(r) PROVE AgentTypeOK'
  <2>1. TurnsOK' /\ ConvOK'
    BY <1>8, <1>a, <1>e, SetTurnIs DEF RequestThrows, ConvOK
  <2>2. CacheOK' /\ ClockOK'
    BY <1>8, <1>a DEF RequestThrows, CacheOK, ClockOK
  <2> QED
    BY <1>c, <2>1, <2>2
<1>9. ASSUME NEW r \in ChatThreads, ProcessAborts(r) PROVE AgentTypeOK'
  <2>1. (ChatBlank => TurnsOK /\ ConvOK /\ CacheOK)'
    BY BlankBase, PTL
  <2>2. TurnsOK' /\ ConvOK' /\ CacheOK'
    BY <2>1, <1>9, AbortBlanks
  <2>3. ClockOK'
    BY <1>9, <1>a DEF ProcessAborts, ClockOK
  <2> QED
    BY <1>c, <2>2, <2>3
<1> QED
  BY <1>1, <1>2, <1>3, <1>4, <1>5, <1>6, <1>7, <1>8, <1>9 DEF AgentNext, TurnStep

-----------------------------------------------------------------------------
(* Agent: transcripts *)

\* A transcript that ends with n calls and the first d of their results, the other calls being
\* answered.
Pending(s, n, d) ==
    LET k0 == Len(s) - d IN
    /\ k0 >= 1 /\ d >= 0 /\ s[k0] = Message("calls", n)
    /\ \A k \in DOMAIN s \ {k0} : s[k].role = "calls" => k + s[k].n <= Len(s)

\* A message that is added to a transcript.
LEMMA AppendIs ==
  ASSUME NEW s \in Seq(Messages), NEW m \in Messages, NEW t, t = Append(s, m)
  PROVE  /\ Len(s) \in Nat /\ Len(t) = Len(s) + 1 /\ DOMAIN s = 1..Len(s) /\ DOMAIN t = 1..Len(t)
         /\ t[Len(s) + 1] = m
         /\ \A k \in 1..Len(s) : /\ t[k] = s[k] /\ s[k] \in Messages /\ s[k].n \in Nat
                                 /\ s[k] = Message(s[k].role, s[k].n)
<1>1. \A k \in 1..Len(s) : s[k] \in Messages
  OBVIOUS
<1>2. \A x \in Messages : x.n \in Nat /\ x = Message(x.role, x.n)
  BY DEF Messages, Message
<1> QED
  BY <1>1, <1>2

LEMMA AppendPlain ==
  ASSUME NEW s \in Seq(Messages), Paired(s), Answered(s), NEW m \in Messages, m.role # "tool",
         NEW t, t = Append(s, m)
  PROVE  /\ Paired(t)
         /\ m.role # "calls" => Answered(t)
         /\ \A n \in Nat : m = Message("calls", n) => Pending(t, n, 0)
<1>a. /\ Len(s) \in Nat /\ Len(t) = Len(s) + 1 /\ DOMAIN s = 1..Len(s) /\ DOMAIN t = 1..Len(t)
      /\ t[Len(s) + 1] = m
      /\ \A k \in 1..Len(s) : t[k] = s[k] /\ s[k].n \in Nat
  BY AppendIs
<1> DEFINE L == Len(s)
<1>b. /\ L \in Nat /\ Len(t) = L + 1 /\ DOMAIN s = 1..L /\ DOMAIN t = 1..(L + 1) /\ t[L + 1] = m
      /\ \A k \in 1..L : t[k] = s[k] /\ s[k].n \in Nat
  BY <1>a
<1>c. \A k \in 1..(L + 1) : k \in 1..L \/ k = L + 1
  BY <1>b
<1> HIDE DEF L
<1>1. ASSUME NEW k \in DOMAIN t, t[k].role = "tool"
      PROVE  k > 1 /\ t[k - 1].role = (IF t[k].n = 1 THEN "calls" ELSE "tool")
                /\ (t[k].n > 1 => t[k - 1].n = t[k].n - 1)
  <2>1. k \in 1..L /\ s[k].role = "tool" /\ t[k] = s[k]
    BY <1>1, <1>b, <1>c
  <2>2. k > 1 /\ s[k - 1].role = (IF s[k].n = 1 THEN "calls" ELSE "tool")
             /\ (s[k].n > 1 => s[k - 1].n = s[k].n - 1)
    BY <2>1, <1>b DEF Paired
  <2>3. k - 1 \in 1..L
    BY <2>1, <2>2, <1>b
  <2> QED
    BY <2>1, <2>2, <2>3, <1>b
<1>2. ASSUME NEW k \in 1..L, s[k].role = "calls" PROVE k + s[k].n <= L
  <2>1. Len(s) = L
    BY DEF L
  <2> QED
    BY <1>2, <1>b, <2>1 DEF Answered
<1>3. ASSUME NEW k \in DOMAIN t, t[k].role = "calls", NEW i \in 1..t[k].n, k + i <= Len(t)
      PROVE  t[k + i] = Message("tool", i)
  <2>1. CASE k \in 1..L
    <3>1. t[k] = s[k] /\ s[k].n \in Nat /\ k + s[k].n <= L
      BY <2>1, <1>3, <1>b, <1>2
    <3>2. k + i \in 1..L /\ i \in 1..s[k].n
      BY <2>1, <3>1, <1>b
    <3>3. k + i <= Len(s)
      BY <3>2, <1>b DEF L
    <3>4. s[k + i] = Message("tool", i)
      BY <2>1, <3>1, <3>2, <3>3, <1>3, <1>b DEF Paired
    <3> QED
      BY <3>2, <3>4, <1>b
  <2>2. CASE k = L + 1
    <3>1. m.role = "calls" /\ i >= 1 /\ i \in Int
      BY <2>2, <1>3, <1>b
    <3> QED
      BY <2>2, <3>1, <1>3, <1>b
  <2> QED
    BY <2>1, <2>2, <1>b, <1>c
<1>4. Paired(t)
  BY <1>1, <1>3 DEF Paired
<1>5. ASSUME NEW k \in 1..L, t[k].role = "calls" PROVE k + t[k].n <= L + 1
  BY <1>2, <1>5, <1>b
<1>6. m.role # "calls" => Answered(t)
  BY <1>5, <1>b, <1>c DEF Answered
<1>7. ASSUME NEW n \in Nat, m = Message("calls", n) PROVE Pending(t, n, 0)
  <2>1. Len(t) - 0 = L + 1 /\ L + 1 >= 1
    BY <1>b
  <2>2. t[L + 1] = Message("calls", n)
    BY <1>7, <1>b
  <2>3. \A k \in DOMAIN t \ {L + 1} : t[k].role = "calls" => k + t[k].n <= Len(t)
    BY <1>5, <1>b, <1>c
  <2> QED
    BY <2>1, <2>2, <2>3 DEF Pending
<1> QED
  BY <1>4, <1>6, <1>7

LEMMA AppendResult ==
  ASSUME NEW s \in Seq(Messages), Paired(s), NEW n \in Nat, NEW d \in Nat, Pending(s, n, d), d < n,
         NEW t, t = Append(s, Message("tool", d + 1))
  PROVE  Paired(t) /\ Pending(t, n, d + 1) /\ (d + 1 = n => Answered(t))
<1> DEFINE L == Len(s)
           m == Message("tool", d + 1)
           k0 == L - d
<1>m. m \in Messages /\ m.role = "tool" /\ m.n = d + 1
  <2>1. m \in Messages
    BY MessageTypes
  <2>2. m.role = "tool" /\ m.n = d + 1
    BY DEF Message
  <2> QED
    BY <2>1, <2>2
<1>a. /\ Len(s) \in Nat /\ Len(t) = Len(s) + 1 /\ DOMAIN s = 1..Len(s) /\ DOMAIN t = 1..Len(t)
      /\ t[Len(s) + 1] = m
      /\ \A k \in 1..Len(s) : t[k] = s[k] /\ s[k].n \in Nat
  <2> HIDE DEF m
  <2>1. t = Append(s, m)
    BY DEF m
  <2> QED
    BY <1>m, <2>1, AppendIs
<1>b. /\ L \in Nat /\ Len(t) = L + 1 /\ DOMAIN s = 1..L /\ DOMAIN t = 1..(L + 1) /\ t[L + 1] = m
      /\ \A k \in 1..L : t[k] = s[k] /\ s[k].n \in Nat
  BY <1>a
<1>c. \A k \in 1..(L + 1) : k \in 1..L \/ k = L + 1
  BY <1>b
<1>d. /\ k0 \in 1..L /\ s[k0].role = "calls" /\ s[k0].n = n
      /\ \A k \in 1..L \ {k0} : s[k].role = "calls" => k + s[k].n <= L
  <2>1. k0 >= 1 /\ s[k0] = Message("calls", n)
        /\ \A k \in 1..L \ {k0} : s[k].role = "calls" => k + s[k].n <= L
    BY <1>b DEF Pending
  <2>2. k0 \in 1..L
    <3>1. k0 >= 1 /\ L \in Nat
      BY <2>1, <1>b
    <3> HIDE DEF L
    <3> QED
      BY <3>1
  <2> QED
    BY <2>1, <2>2 DEF Message
<1>e. /\ \A k \in 1..L : s[k].role = "tool" =>
            k > 1 /\ s[k - 1].role = (IF s[k].n = 1 THEN "calls" ELSE "tool")
                  /\ (s[k].n > 1 => s[k - 1].n = s[k].n - 1)
      /\ \A k \in 1..L : s[k].role = "calls" =>
            \A i \in 1..s[k].n : k + i <= L => s[k + i] = Message("tool", i)
  BY <1>b DEF Paired
<1>f. d >= 1 => s[L] = Message("tool", d)
  <2> SUFFICES ASSUME d >= 1 PROVE s[L] = Message("tool", d)
    OBVIOUS
  <2>1. L \in Nat /\ k0 \in 1..L /\ s[k0].role = "calls" /\ s[k0].n = n
    BY <1>b, <1>d
  <2>2. d \in 1..s[k0].n /\ k0 + d <= L /\ k0 + d = L
    <3> HIDE DEF L
    <3> QED
      BY <2>1
  <2>3. \A i \in 1..s[k0].n : k0 + i <= L => s[k0 + i] = Message("tool", i)
    BY <2>1, <1>e
  <2> HIDE DEF L, k0
  <2> QED
    BY <2>2, <2>3
<1> HIDE DEF L, k0, m
<1>g. k0 = L - d /\ L \in Nat /\ k0 \in 1..L /\ L >= 1
  BY <1>b, <1>d DEF k0
<1>1. ASSUME NEW k \in DOMAIN t, t[k].role = "tool"
      PROVE  k > 1 /\ t[k - 1].role = (IF t[k].n = 1 THEN "calls" ELSE "tool")
                /\ (t[k].n > 1 => t[k - 1].n = t[k].n - 1)
  <2>1. CASE k \in 1..L
    <3>1. s[k].role = "tool" /\ t[k] = s[k]
      BY <1>1, <2>1, <1>b
    <3>2. k > 1 /\ s[k - 1].role = (IF s[k].n = 1 THEN "calls" ELSE "tool")
               /\ (s[k].n > 1 => s[k - 1].n = s[k].n - 1)
      BY <3>1, <2>1, <1>e
    <3>3. k - 1 \in 1..L
      BY <2>1, <3>2, <1>b
    <3> QED
      BY <3>1, <3>2, <3>3, <1>b
  <2>2. CASE k = L + 1
    <3>1. k > 1 /\ k - 1 = L /\ t[L] = s[L] /\ t[k] = m
      BY <2>2, <1>b, <1>g
    <3>2. CASE d = 0
      <4>1. k0 = L
        BY <3>2, <1>g
      <4>2. s[L].role = "calls" /\ m.n = 1
        BY <4>1, <3>2, <1>d, <1>m
      <4> QED
        BY <3>1, <4>2
    <3>3. CASE d >= 1
      <4>1. s[L].role = "tool" /\ s[L].n = d
        BY <3>3, <1>f DEF Message
      <4>2. m.n = d + 1 /\ m.n > 1 /\ m.n - 1 = d /\ m.n # 1
        BY <3>3, <1>m
      <4> QED
        BY <3>1, <4>1, <4>2
    <3> QED
      BY <3>2, <3>3
  <2> QED
    BY <2>1, <2>2, <1>b, <1>c
<1>2. ASSUME NEW k \in DOMAIN t, t[k].role = "calls", NEW i \in 1..t[k].n, k + i <= Len(t)
      PROVE  t[k + i] = Message("tool", i)
  <2>1. k \in 1..L /\ t[k] = s[k] /\ s[k].role = "calls" /\ s[k].n \in Nat
    BY <1>2, <1>b, <1>c, <1>m
  <2>2. CASE k + i <= L
    <3>1. k + i \in 1..L
      BY <2>1, <2>2, <1>b
    <3> QED
      BY <2>1, <2>2, <3>1, <1>b, <1>e
  <2>3. CASE k + i = L + 1
    <3>1. k = k0
      <4> SUFFICES ASSUME k # k0 PROVE FALSE
        OBVIOUS
      <4>1. k + s[k].n <= L
        BY <2>1, <1>d
      <4> QED
        BY <4>1, <2>1, <2>3, <1>b
    <3>2. i = d + 1
      BY <3>1, <2>1, <2>3, <1>g
    <3> QED
      BY <3>2, <2>3, <1>b DEF m
  <2> QED
    BY <2>1, <2>2, <2>3, <1>2, <1>b
<1>3. Paired(t)
  BY <1>1, <1>2 DEF Paired
<1>4. ASSUME NEW k \in DOMAIN t \ {k0}, t[k].role = "calls" PROVE k + t[k].n <= Len(t)
  <2>1. k \in 1..L /\ t[k] = s[k] /\ s[k].role = "calls" /\ s[k].n \in Nat
    BY <1>4, <1>b, <1>c, <1>m
  <2>2. k + s[k].n <= L
    BY <2>1, <1>4, <1>d
  <2> QED
    BY <2>1, <2>2, <1>b
<1>5. Pending(t, n, d + 1)
  <2>1. Len(t) - (d + 1) = k0 /\ k0 >= 1 /\ d + 1 >= 0
    BY <1>b, <1>g
  <2>2. t[k0] = Message("calls", n)
    <3>1. s[k0] = Message("calls", n)
      BY DEF Pending, k0, L
    <3> QED
      BY <3>1, <1>b, <1>g
  <2> QED
    BY <2>1, <2>2, <1>4 DEF Pending
<1>6. d + 1 = n => Answered(t)
  <2> SUFFICES ASSUME d + 1 = n PROVE Answered(t)
    OBVIOUS
  <2>1. k0 + t[k0].n <= Len(t)
    BY <1>b, <1>d, <1>g
  <2> QED
    BY <2>1, <1>4 DEF Answered
<1> QED
  BY <1>3, <1>5, <1>6

\* What follows a question or a text in a legal transcript is one.
LEMMA SuffixLegal ==
  ASSUME NEW s \in Seq(Messages), Paired(s), Answered(s), NEW t, NEW a \in Nat,
         Len(t) \in Nat, DOMAIN t = 1..Len(t), a + Len(t) = Len(s),
         \A k \in 1..Len(t) : t[k] = s[a + k],
         Len(t) > 0 => t[1].role # "tool"
  PROVE  Paired(t) /\ Answered(t)
<1> DEFINE L == Len(s)
           T == Len(t)
<1>a. /\ L \in Nat /\ T \in Nat /\ a + T = L /\ DOMAIN s = 1..L /\ DOMAIN t = 1..T
      /\ \A k \in 1..L : s[k].n \in Nat
      /\ \A k \in 1..T : t[k] = s[a + k]
  <2>1. \A x \in Messages : x.n \in Nat
    BY DEF Messages
  <2>2. \A k \in 1..Len(s) : s[k] \in Messages
    OBVIOUS
  <2> QED
    BY <2>1, <2>2
<1>b. /\ \A k \in 1..L : s[k].role = "tool" =>
            k > 1 /\ s[k - 1].role = (IF s[k].n = 1 THEN "calls" ELSE "tool")
                  /\ (s[k].n > 1 => s[k - 1].n = s[k].n - 1)
      /\ \A k \in 1..L : s[k].role = "calls" =>
            \A i \in 1..s[k].n : k + i <= L => s[k + i] = Message("tool", i)
      /\ \A k \in 1..L : s[k].role = "calls" => k + s[k].n <= L
  BY <1>a DEF Paired, Answered
<1>c. T > 0 => t[1].role # "tool"
  OBVIOUS
<1> HIDE DEF L, T
<1>1. ASSUME NEW k \in 1..T, t[k].role = "tool"
      PROVE  k > 1 /\ t[k - 1].role = (IF t[k].n = 1 THEN "calls" ELSE "tool")
                /\ (t[k].n > 1 => t[k - 1].n = t[k].n - 1)
  <2>1. k > 1
    <3>1. k # 1
      BY <1>1, <1>a, <1>c
    <3> QED
      BY <3>1, <1>a
  <2>2. a + k \in 1..L /\ k - 1 \in 1..T /\ a + (k - 1) = (a + k) - 1
    BY <2>1, <1>a
  <2>3. t[k] = s[a + k] /\ t[k - 1] = s[(a + k) - 1]
    BY <2>2, <1>a
  <2> QED
    BY <1>1, <2>1, <2>2, <2>3, <1>b
<1>2. ASSUME NEW k \in 1..T, t[k].role = "calls"
      PROVE  /\ k + t[k].n <= T
             /\ \A i \in 1..t[k].n : k + i <= T => t[k + i] = Message("tool", i)
  <2>1. a + k \in 1..L /\ t[k] = s[a + k] /\ s[a + k].n \in Nat
    BY <1>a
  <2>2. (a + k) + s[a + k].n <= L
    BY <1>2, <2>1, <1>b
  <2>3. k + t[k].n <= T
    BY <2>1, <2>2, <1>a
  <2>4. ASSUME NEW i \in 1..t[k].n, k + i <= T PROVE t[k + i] = Message("tool", i)
    <3>1. k + i \in 1..T /\ a + (k + i) = (a + k) + i /\ (a + k) + i <= L
      BY <2>1, <2>4, <1>a
    <3>2. s[(a + k) + i] = Message("tool", i)
      BY <1>2, <2>1, <2>4, <3>1, <1>b
    <3> QED
      BY <3>1, <3>2, <1>a
  <2> QED
    BY <2>3, <2>4
<1>3. Paired(t)
  BY <1>1, <1>2, <1>a DEF Paired, T
<1>4. Answered(t)
  BY <1>2, <1>a DEF Answered, T
<1> QED
  BY <1>3, <1>4

\* A set of numbers that is not empty has a least one.
LEMMA LeastOf ==
  ASSUME NEW S, S \subseteq Nat, S # {}
  PROVE  \E m \in S : \A k \in S : m <= k
<1> DEFINE Less == OpToRel(<, Nat)
<1>1. IsWellFoundedOn(Less, Nat)
  BY NatLessThanWellFounded, Zenon
<1>2. \E m \in S : \A k \in S : ~ (<<k, m>> \in Less)
  <2> HIDE DEF Less
  <2> QED BY <1>1, WFMin
<1>3. PICK m \in S : \A k \in S : ~ (<<k, m>> \in Less)
  BY <1>2
<1>4. ASSUME NEW k \in S PROVE m <= k
  <2>1. ~ (k < m)
    BY <1>3, Zenon DEF OpToRel
  <2> QED
    BY <2>1
<1> QED
  BY <1>4

\* Cutting a legal transcript to any length leaves a legal one of at most that length.
LEMMA TruncateLegal ==
  ASSUME NEW s \in Seq(Messages), Paired(s), Answered(s), NEW n \in Nat
  PROVE  LET t == Truncate(s, n) IN Len(t) <= n /\ Paired(t) /\ Answered(t)
<1> DEFINE recent == SubSeq(s, Len(s) - n + 1, Len(s))
           heads == {k \in DOMAIN recent : recent[k].role \in {"user", "text"}}
<1>a. Len(s) \in Nat
  OBVIOUS
<1>1. CASE Len(s) <= n
  BY <1>1 DEF Truncate
<1>2. CASE ~(Len(s) <= n) /\ heads = {}
  <2>1. Truncate(s, n) = <<>>
    BY <1>2 DEF Truncate
  <2>2. Len(<<>>) = 0 /\ DOMAIN <<>> = {}
    OBVIOUS
  <2> QED
    BY <2>1, <2>2 DEF Paired, Answered
<1>3. CASE ~(Len(s) <= n) /\ heads # {}
  <2>a. PICK b \in Nat : b = Len(s) - n
    BY <1>3, <1>a
  <2>b. b + n = Len(s)
    BY <2>a, <1>a
  <2>1. /\ recent \in Seq(Messages) /\ Len(recent) = n /\ DOMAIN recent = 1..n
        /\ \A k \in 1..n : recent[k] = s[b + k]
    <3>1. recent = SubSeq(s, b + 1, Len(s)) /\ b + 1 \in 1..(Len(s) + 1)
      BY <2>a, <1>a
    <3>2. /\ SubSeq(s, b + 1, Len(s)) \in Seq(Messages) /\ Len(SubSeq(s, b + 1, Len(s))) = n
      BY <2>b, <1>a
    <3>3. ASSUME NEW k \in 1..n PROVE SubSeq(s, b + 1, Len(s))[k] = s[b + k]
      <4>1. SubSeq(s, b + 1, Len(s))[k] = s[(b + 1) + k - 1]
        BY <2>b, <1>a
      <4>2. (b + 1) + k - 1 = b + k
        OBVIOUS
      <4> QED
        BY <4>1, <4>2
    <3> HIDE DEF recent
    <3> QED
      BY <3>1, <3>2, <3>3
  <2> HIDE DEF recent
  <2>2. heads \subseteq 1..n /\ heads \subseteq Nat
    BY <2>1
  <2>3. PICK h \in heads : h = CHOOSE k \in heads : \A j \in heads : k <= j
    <3> HIDE DEF heads
    <3>1. \E m \in heads : \A k \in heads : m <= k
      BY <2>2, <1>3, LeastOf
    <3> QED
      BY <3>1
  <2>4. h \in 1..n /\ recent[h].role \in {"user", "text"}
    BY <2>2
  <2>5. PICK t : t = SubSeq(recent, h, n)
    OBVIOUS
  <2>6. Truncate(s, n) = t
    BY <1>3, <2>1, <2>3, <2>5 DEF Truncate, recent
  <2>7. PICK c \in Nat : c = h - 1
    BY <2>4
  <2>8. /\ Len(t) = n - c /\ DOMAIN t = 1..(n - c) /\ n - c \in Nat /\ n - c <= n
        /\ \A k \in 1..(n - c) : t[k] = recent[c + k]
    <3>1. h = c + 1 /\ c + 1 <= n
      BY <2>4, <2>7
    <3>2. t \in Seq(Messages) /\ Len(t) = n - c
      BY <3>1, <2>1, <2>5
    <3>3. ASSUME NEW k \in 1..(n - c) PROVE t[k] = recent[c + k]
      <4>1. t[k] = recent[(c + 1) + k - 1]
        BY <3>1, <2>1, <2>5
      <4>2. (c + 1) + k - 1 = c + k
        OBVIOUS
      <4> QED
        BY <4>1, <4>2
    <3>4. n - c \in Nat /\ n - c <= n
      BY <3>1
    <3> QED
      BY <3>2, <3>3, <3>4
  <2>9. PICK a \in Nat : a = b + c
    OBVIOUS
  <2>10. a + Len(t) = Len(s)
    BY <2>8, <2>9, <2>b, <1>a
  <2>11. ASSUME NEW k \in 1..Len(t) PROVE t[k] = s[a + k]
    <3>1. k \in 1..(n - c) /\ c + k \in 1..n /\ b + (c + k) = a + k
      BY <2>8, <2>9
    <3>2. recent[c + k] = s[b + (c + k)]
      BY <3>1, <2>1
    <3> QED
      BY <3>1, <3>2, <2>8
  <2>12. Len(t) > 0 => t[1].role # "tool"
    <3>1. c + 1 = h /\ (Len(t) > 0 => 1 \in 1..(n - c))
      BY <2>4, <2>7, <2>8
    <3> QED
      BY <3>1, <2>4, <2>8
  <2>13. Paired(t) /\ Answered(t)
    BY <2>8, <2>10, <2>11, <2>12, SuffixLegal
  <2> QED
    BY <2>6, <2>8, <2>13
<1> QED
  BY <1>1, <1>2, <1>3

\* A conversation that is not mixed has one thread at work, which knows what is still to be
\* answered in it.
Legal(c) ==
    agConv[c] # Mixed =>
        /\ Paired(agConv[c])
        /\ \A r, s \in Busy(c) : r = s
        /\ (\A r \in Busy(c) : agTurn[r].pc # "tools") => Answered(agConv[c])
        /\ \A r \in Busy(c) : agTurn[r].pc = "tools" =>
              Pending(agConv[c], agTurn[r].calls, agTurn[r].done)
LegalInv == \A c \in Conversations : Legal(c)

LEMMA BlankLegal == ChatBlank => LegalInv
<1> SUFFICES ASSUME ChatBlank, NEW c \in Conversations PROVE Legal(c)
  BY DEF LegalInv
<1>1. agConv[c] = <<>> /\ DOMAIN <<>> = {}
  BY DEF ChatBlank
<1>2. Busy(c) = {}
  BY AgentFacts DEF ChatBlank, Busy
<1> QED
  BY <1>1, <1>2 DEF Legal, Paired, Answered

\* The first message stays.
LEMMA OpenedAppend ==
  ASSUME NEW s \in Seq(Messages), s # Mixed, NEW m \in Messages,
         s = <<>> => \E q \in Questions : m = Message("user", q),
         s = <<>> \/ Opened(s)
  PROVE  Opened(Append(s, m))
<1>1. CASE s = <<>>
  <2>1. Append(s, m) # <<>> /\ Append(s, m)[1] = m
    BY <1>1
  <2> QED
    BY <1>1, <2>1 DEF Opened
<1>2. CASE s # <<>> /\ Opened(s)
  <2>1. Len(s) \in Nat /\ Len(s) >= 1
    BY <1>2
  <2>2. Append(s, m) # <<>> /\ Append(s, m)[1] = s[1]
    BY <2>1
  <2> QED
    BY <1>2, <2>2 DEF Opened
<1> QED
  BY <1>1, <1>2

\* The thread r adds a message to its conversation c.
LEMMA TalkStep ==
  ASSUME AgentBase, LegalInv, NEW r \in ChatThreads, NEW c \in Conversations, NEW m \in Messages,
         Push(r, c, m), Turned(r),
         agTurn[r].pc = "idle" \/ agTurn[r].conv = c, agTurn'[r].pc = "idle" \/ agTurn'[r].conv = c,
         agConv[c] = <<>> => \E q \in Questions : m = Message("user", q),
         agConv[c] # Mixed /\ Busy(c) \ {r} = {} =>
            /\ Paired(Append(agConv[c], m))
            /\ agTurn'[r].pc # "tools" => Answered(Append(agConv[c], m))
            /\ agTurn'[r].pc = "tools" =>
                  Pending(Append(agConv[c], m), agTurn'[r].calls, agTurn'[r].done)
  PROVE  OpenInv' /\ LegalInv'
<1>a. /\ agConv \in [Conversations -> Seq(Messages)] /\ OpenInv
  BY AgentTypeIs DEF AgentBase, ConvOK
<1>1. /\ \A d \in Conversations \ {c} : agConv'[d] = agConv[d]
      /\ agConv'[c] = IF agConv[c] = Mixed \/ Busy(c) \ {r} # {} THEN Mixed
                      ELSE Append(agConv[c], m)
  BY <1>a, PushType
<1>2. ASSUME NEW d \in Conversations \ {c}
      PROVE  Busy(d)' = Busy(d) /\ \A s \in Busy(d) : agTurn'[s] = agTurn[s]
  BY DEF Busy, Turned
<1>3. Busy(c)' \subseteq Busy(c) \union {r} /\ (agTurn'[r].pc # "idle" <=> r \in Busy(c)')
  BY DEF Busy, Turned
<1>4. Opened(agConv[c])' /\ agConv'[c] # <<>>
  <2>1. CASE agConv[c] = Mixed \/ Busy(c) \ {r} # {}
    <3>1. agConv'[c] = Mixed /\ Mixed # <<>>
      BY <1>1, <2>1, AgentFacts
    <3> QED
      BY <3>1 DEF Opened
  <2>2. CASE ~(agConv[c] = Mixed \/ Busy(c) \ {r} # {})
    <3>1. Opened(Append(agConv[c], m))
      BY <2>2, <1>a, OpenedAppend DEF OpenInv
    <3>2. agConv'[c] = Append(agConv[c], m)
      BY <1>1, <2>2
    <3> HIDE DEF Push
    <3> QED
      BY <3>1, <3>2 DEF Opened
  <2> QED
    BY <2>1, <2>2
<1>5. OpenInv'
  <2>1. ASSUME NEW d \in Conversations \ {c}
        PROVE  (agConv'[d] = <<>> \/ Opened(agConv[d])') /\ (Busy(d)' # {} => agConv'[d] # <<>>)
    BY <1>1, <1>2, <1>a DEF OpenInv, Opened
  <2> QED
    BY <2>1, <1>4 DEF OpenInv
<1>6. ASSUME NEW d \in Conversations \ {c} PROVE Legal(d)'
  <2>1. Legal(d)
    BY DEF LegalInv
  <2> QED
    BY <2>1, <1>1, <1>2 DEF Legal
<1>7. Legal(c)'
  <2>1. CASE agConv[c] = Mixed \/ Busy(c) \ {r} # {}
    BY <1>1, <2>1 DEF Legal
  <2>2. CASE ~(agConv[c] = Mixed \/ Busy(c) \ {r} # {})
    <3>1. agConv'[c] = Append(agConv[c], m) /\ Busy(c)' \subseteq {r}
      BY <1>1, <1>3, <2>2
    <3>2. /\ Paired(agConv'[c])
          /\ agTurn'[r].pc # "tools" => Answered(agConv'[c])
          /\ agTurn'[r].pc = "tools" => Pending(agConv'[c], agTurn'[r].calls, agTurn'[r].done)
      BY <3>1, <2>2
    <3>3. (\A x \in Busy(c)' : agTurn'[x].pc # "tools") => agTurn'[r].pc # "tools"
      BY <1>3
    <3> QED
      BY <3>1, <3>2, <3>3 DEF Legal
  <2> QED
    BY <2>1, <2>2
<1>8. LegalInv'
  BY <1>6, <1>7 DEF LegalInv
<1> QED
  BY <1>5, <1>8

\* A thread at work on a conversation that is not mixed.
LEMMA AtWork ==
  ASSUME AgentBase, LegalInv, NEW r \in ChatThreads, agTurn[r].pc # "idle"
  PROVE  /\ agTurn[r].conv \in Conversations /\ agConv[agTurn[r].conv] # <<>>
         /\ r \in Busy(agTurn[r].conv) /\ agConv[agTurn[r].conv] \in Seq(Messages)
         /\ agConv[agTurn[r].conv] # Mixed =>
               /\ Paired(agConv[agTurn[r].conv])
               /\ agTurn[r].pc # "tools" => Answered(agConv[agTurn[r].conv])
               /\ agTurn[r].pc = "tools" =>
                     Pending(agConv[agTurn[r].conv], agTurn[r].calls, agTurn[r].done)
<1>1. agTurn[r].conv \in Conversations /\ agConv[agTurn[r].conv] \in Seq(Messages)
  BY TurnFields, AgentTypeIs DEF AgentBase, ConvOK
<1>2. r \in Busy(agTurn[r].conv)
  BY DEF Busy
<1>3. agConv[agTurn[r].conv] # <<>>
  BY <1>1, <1>2 DEF AgentBase, OpenInv
<1>4. ASSUME NEW x \in Busy(agTurn[r].conv), agConv[agTurn[r].conv] # Mixed PROVE x = r
  BY <1>1, <1>2, <1>4 DEF LegalInv, Legal
<1> QED
  BY <1>1, <1>2, <1>3, <1>4 DEF LegalInv, Legal

LEMMA TalkNext == AgentBase /\ LegalInv /\ [AgentNext]_agVars => TurnInv' /\ OpenInv' /\ LegalInv'
<1> SUFFICES ASSUME AgentBase, LegalInv, [AgentNext]_agVars PROVE TurnInv' /\ OpenInv' /\ LegalInv'
  OBVIOUS
<1>a. AgentTypeOK /\ TurnsOK /\ TurnInv /\ \A r \in ChatThreads : agTurn[r] \in Turns
  BY AgentTypeIs DEF AgentBase, TurnsOK
<1>b. ASSUME NEW r \in ChatThreads, Turned(r),
             agTurn'[r].pc = "tools" => agTurn'[r].done < agTurn'[r].calls
      PROVE  TurnInv'
  BY <1>b, <1>a DEF TurnInv, Turned
<1>t. Message("text", 0) \in Messages /\ Message("text", 0).role = "text"
  BY MessageTypes DEF Message
\* An answer in text ends a turn.
<1>c. ASSUME NEW r \in ChatThreads, agTurn[r].pc \in {"ask", "wait"},
             Push(r, agTurn[r].conv, Message("text", 0)), SetTurn(r, NoTurn)
      PROVE  TurnInv' /\ OpenInv' /\ LegalInv'
  <2>g. PICK c \in Conversations : c = agTurn[r].conv
    BY <1>a, TurnFields
  <2>1. agTurn'[r].pc = "idle" /\ Turned(r)
    BY <1>c, <1>a, SetTurnIs, AgentFacts
  <2>2. TurnInv'
    BY <1>b, <2>1
  <2>m. PICK m \in Messages : m = Message("text", 0)
    BY <1>t
  <2>3. /\ agConv[c] \in Seq(Messages) /\ agConv[c] # <<>>
        /\ agConv[c] # Mixed => Paired(agConv[c]) /\ Answered(agConv[c])
    BY <1>c, <2>g, AtWork
  <2>4. agConv[c] # Mixed => Paired(Append(agConv[c], m)) /\ Answered(Append(agConv[c], m))
    BY <2>3, <2>m, <1>t, AppendPlain
  <2> QED
    BY <1>c, <2>1, <2>2, <2>3, <2>4, <2>g, <2>m, TalkStep
<1>1. ASSUME NEW r \in ChatThreads, NEW c \in Conversations, NEW q \in Questions, ChatStart(r, c, q)
      PROVE  TurnInv' /\ OpenInv' /\ LegalInv'
  <2>1. agTurn'[r] = [NoTurn EXCEPT !.pc = "ask", !.conv = c] /\ Turned(r)
    BY <1>1, <1>a, SetTurnIs, TurnForms DEF ChatStart
  <2>2. agTurn'[r].pc = "ask" /\ agTurn'[r].conv = c
    BY <2>1, AgentFacts DEF Turns
  <2>3. TurnInv'
    BY <1>b, <2>1, <2>2
  <2>m. PICK m \in Messages : m = Message("user", q)
    BY MessageTypes
  <2>4. m.role = "user"
    BY <2>m DEF Message
  <2>5. ASSUME agConv[c] # Mixed, Busy(c) \ {r} = {}
        PROVE  Paired(Append(agConv[c], m)) /\ Answered(Append(agConv[c], m))
    <3>1. Busy(c) = {}
      BY <1>1, <2>5 DEF ChatStart, Busy
    <3>2. agConv[c] \in Seq(Messages) /\ Paired(agConv[c]) /\ Answered(agConv[c])
      BY <2>5, <3>1, AgentTypeIs DEF LegalInv, Legal, AgentBase, ConvOK
    <3> QED
      BY <3>2, <2>4, AppendPlain
  <2>6. Push(r, c, m) /\ agTurn[r].pc = "idle"
    BY <1>1, <2>m DEF ChatStart
  <2> QED
    BY <2>1, <2>2, <2>3, <2>5, <2>6, <2>m, TalkStep
<1>2. ASSUME NEW r \in ChatThreads, CacheHit(r) \/ AnswerWithoutEngine(r) \/ AnswerText(r)
      PROVE  TurnInv' /\ OpenInv' /\ LegalInv'
  BY <1>2, <1>c DEF CacheHit, AnswerWithoutEngine, AnswerText
<1>3. ASSUME NEW r \in ChatThreads, Ask(r) PROVE TurnInv' /\ OpenInv' /\ LegalInv'
  <2>1. PICK q \in Alone(agTurn[r].conv) :
           SetTurn(r, [agTurn[r] EXCEPT !.pc = "wait", !.alone = q])
    BY <1>3 DEF Ask
  <2>2. r \in Busy(agTurn[r].conv) /\ agTurn[r].conv \in Conversations
    BY <1>3, <1>a, TurnFields DEF Ask, Busy
  <2>3. q \in Questions \union {0}
    BY <2>1, <2>2, AloneType
  <2>4. agTurn'[r] = [agTurn[r] EXCEPT !.pc = "wait", !.alone = q] /\ Turned(r)
    BY <2>1, <2>3, <1>a, TurnForms, SetTurnIs
  <2>5. agTurn'[r].pc = "wait" /\ agTurn'[r].conv = agTurn[r].conv
    BY <2>4, <1>a DEF Turns
  <2>6. TurnInv'
    BY <1>b, <2>4, <2>5
  <2>7. agTurn[r].pc = "ask" /\ UNCHANGED agConv
    BY <1>3 DEF Ask
  <2>8. ASSUME NEW c \in Conversations
        PROVE  /\ Busy(c)' = Busy(c)
               /\ \A s \in Busy(c) : /\ agTurn'[s].pc = "tools" <=> agTurn[s].pc = "tools"
                                     /\ agTurn[s].pc = "tools" => agTurn'[s] = agTurn[s]
    <3>1. Turned(r)
      BY <2>4
    <3> QED
      BY <3>1, <2>5, <2>7 DEF Busy, Turned
  <2>9. OpenInv'
    BY <2>7, <2>8 DEF AgentBase, OpenInv, Opened
  <2>10. LegalInv'
    BY <2>7, <2>8 DEF LegalInv, Legal
  <2> QED
    BY <2>6, <2>9, <2>10
<1>4. ASSUME NEW r \in ChatThreads, NEW n \in 1..MaxCalls, AnswerCalls(r, n)
      PROVE  TurnInv' /\ OpenInv' /\ LegalInv'
  <2>g. PICK c \in Conversations : c = agTurn[r].conv
    BY <1>a, TurnFields
  <2>n. n \in Nat /\ n >= 1
    OBVIOUS
  <2>1. agTurn'[r] = [agTurn[r] EXCEPT !.pc = "tools", !.calls = n, !.done = 0] /\ Turned(r)
    BY <1>4, <1>a, SetTurnIs, TurnForms DEF AnswerCalls
  <2>2. agTurn'[r].pc = "tools" /\ agTurn'[r].calls = n /\ agTurn'[r].done = 0 /\ agTurn'[r].conv = c
    BY <2>1, <1>a, <2>g DEF Turns
  <2>3. TurnInv'
    <3>1. Turned(r) /\ agTurn'[r].done < agTurn'[r].calls
      BY <2>1, <2>2, <2>n
    <3> QED
      BY <3>1, <1>b
  <2>m. PICK m \in Messages : m = Message("calls", n)
    BY <2>n, MessageTypes
  <2>4. m.role = "calls"
    BY <2>m DEF Message
  <2>5. /\ agConv[c] \in Seq(Messages) /\ agConv[c] # <<>>
        /\ agConv[c] # Mixed => Paired(agConv[c]) /\ Answered(agConv[c])
    BY <1>4, <2>g, AtWork DEF AnswerCalls
  <2>6. agConv[c] # Mixed => Paired(Append(agConv[c], m)) /\ Pending(Append(agConv[c], m), n, 0)
    BY <2>5, <2>m, <2>n, <2>4, AppendPlain
  <2>7. Push(r, c, m)
    BY <1>4, <2>g, <2>m DEF AnswerCalls
  <2> QED
    BY <2>1, <2>2, <2>3, <2>5, <2>6, <2>7, <2>g, TalkStep
<1>5. ASSUME NEW r \in ChatThreads, ToolResult(r) PROVE TurnInv' /\ OpenInv' /\ LegalInv'
  <2>g. PICK c \in Conversations : c = agTurn[r].conv
    BY <1>a, TurnFields
  <2>p. PICK n \in Nat, d \in Nat : n = agTurn[r].calls /\ d = agTurn[r].done
    BY <1>a, TurnFields
  <2>a. agTurn[r].pc = "tools" /\ d < n /\ agTurn[r].done < agTurn[r].calls
    BY <1>5, <1>a, <2>p DEF ToolResult, TurnInv
  <2>1. /\ Turned(r)
        /\ \/ /\ d + 1 # n /\ agTurn'[r].pc = "tools" /\ agTurn'[r].calls = n
              /\ agTurn'[r].done = d + 1 /\ agTurn'[r].conv = c
           \/ d + 1 = n /\ agTurn'[r].pc = "ask" /\ agTurn'[r].conv = c
           \/ d + 1 = n /\ agTurn'[r].pc = "idle"
    <3>1. CASE d + 1 # n
      <4>1. agTurn'[r] = [agTurn[r] EXCEPT !.done = @ + 1] /\ Turned(r)
        BY <3>1, <1>5, <1>a, <2>a, <2>p, SetTurnIs, TurnForms DEF ToolResult
      <4> QED
        BY <3>1, <4>1, <1>a, <2>a, <2>g, <2>p DEF Turns
    <3>2. CASE d + 1 = n /\ agTurn[r].round + 1 < MaxRounds
      <4>1. agTurn'[r] = [agTurn[r] EXCEPT !.pc = "ask", !.round = @ + 1, !.alone = 0, !.calls = 0,
                                           !.done = 0] /\ Turned(r)
        BY <3>2, <1>5, <1>a, <2>p, SetTurnIs, TurnForms DEF ToolResult
      <4> QED
        BY <3>2, <4>1, <1>a, <2>g DEF Turns
    <3>3. CASE d + 1 = n /\ ~(agTurn[r].round + 1 < MaxRounds)
      BY <3>3, <1>5, <1>a, <2>p, SetTurnIs, AgentFacts DEF ToolResult
    <3> QED
      BY <3>1, <3>2, <3>3
  <2>2. TurnInv'
    <3>1. agTurn'[r].pc = "tools" => agTurn'[r].done < agTurn'[r].calls
      BY <2>1, <2>a
    <3> QED
      BY <3>1, <2>1, <1>b
  <2>m. PICK m \in Messages : m = Message("tool", d + 1)
    BY MessageTypes
  <2>3. /\ agConv[c] \in Seq(Messages) /\ agConv[c] # <<>>
        /\ agConv[c] # Mixed => Paired(agConv[c]) /\ Pending(agConv[c], n, d)
    BY <2>a, <2>g, <2>p, AtWork
  <2>4. agConv[c] # Mixed => /\ Paired(Append(agConv[c], m)) /\ Pending(Append(agConv[c], m), n, d + 1)
                             /\ d + 1 = n => Answered(Append(agConv[c], m))
    BY <2>3, <2>m, <2>a, AppendResult
  <2>5. Push(r, c, m)
    BY <1>5, <2>g, <2>m, <2>p DEF ToolResult
  <2>6. agConv[c] # Mixed =>
            /\ Paired(Append(agConv[c], m))
            /\ agTurn'[r].pc # "tools" => Answered(Append(agConv[c], m))
            /\ agTurn'[r].pc = "tools" =>
                  Pending(Append(agConv[c], m), agTurn'[r].calls, agTurn'[r].done)
    BY <2>1, <2>4
  <2> QED
    BY <2>1, <2>2, <2>3, <2>5, <2>6, <2>g, TalkStep
<1>6. CASE ChatTick \/ UNCHANGED agVars
  <2>1. UNCHANGED <<agConv, agTurn>>
    BY <1>6 DEF ChatTick, agVars
  <2>2. \A c : Busy(c)' = Busy(c)
    BY <2>1 DEF Busy
  <2> QED
    BY <2>1, <2>2 DEF AgentBase, TurnInv, OpenInv, Opened, LegalInv, Legal
<1>7. ASSUME NEW r \in ChatThreads, RequestThrows(r) PROVE TurnInv' /\ OpenInv' /\ LegalInv'
  <2>1. agTurn'[r].pc = "idle" /\ Turned(r) /\ UNCHANGED agConv /\ agTurn[r].pc = "ask"
    BY <1>7, <1>a, SetTurnIs, AgentFacts DEF RequestThrows
  <2>2. TurnInv'
    BY <1>b, <2>1
  <2>3. ASSUME NEW c \in Conversations
        PROVE  /\ Busy(c)' \subseteq Busy(c) /\ Busy(c) \ {r} \subseteq Busy(c)'
               /\ \A s \in Busy(c)' : agTurn'[s] = agTurn[s]
    BY <2>1 DEF Busy, Turned
  <2>4. OpenInv'
    BY <2>1, <2>3 DEF AgentBase, OpenInv, Opened
  <2>5. ASSUME NEW c \in Conversations, agConv[c] # Mixed PROVE Legal(c)'
    <3>1. /\ Paired(agConv[c]) /\ \A x, y \in Busy(c) : x = y
          /\ (\A x \in Busy(c) : agTurn[x].pc # "tools") => Answered(agConv[c])
          /\ \A x \in Busy(c) : agTurn[x].pc = "tools" =>
                Pending(agConv[c], agTurn[x].calls, agTurn[x].done)
      BY <2>5 DEF LegalInv, Legal
    <3>2. (\A x \in Busy(c)' : agTurn'[x].pc # "tools") => Answered(agConv[c])
      BY <2>1, <2>3, <3>1
    <3> QED
      BY <2>1, <2>3, <3>1, <3>2 DEF Legal
  <2>6. LegalInv'
    BY <2>1, <2>5 DEF LegalInv, Legal
  <2> QED
    BY <2>2, <2>4, <2>6
<1>8. ASSUME NEW r \in ChatThreads, ProcessAborts(r) PROVE TurnInv' /\ OpenInv' /\ LegalInv'
  <2>1. (ChatBlank => TurnInv /\ OpenInv /\ LegalInv)'
    BY BlankBase, BlankLegal, PTL
  <2> QED
    BY <2>1, <1>8, AbortBlanks
<1> QED
  BY <1>1, <1>2, <1>3, <1>4, <1>5, <1>6, <1>7, <1>8 DEF AgentNext, TurnStep

-----------------------------------------------------------------------------
(* Agent: the cache of answers *)

Present == {q \in Questions : agCache[q].time >= 0}

\* A part of a finite set is finite and has no more elements.
LEMMA PartOfFinite ==
  ASSUME NEW T, NEW S, S \subseteq T, IsFiniteSet(T)
  PROVE  /\ IsFiniteSet(S) /\ Cardinality(S) <= Cardinality(T)
         /\ Cardinality(S) \in Nat /\ Cardinality(T) \in Nat
<1>1. S \in SUBSET T
  OBVIOUS
<1>2. IsFiniteSet(S) /\ Cardinality(S) <= Cardinality(T)
  BY <1>1, FS_Subset
<1> QED
  BY <1>2, FS_CardinalityType

\* At capacity the oldest entry makes room for the new one.
LEMMA StoredSound ==
  ASSUME CacheOK, CacheIsSound, agNow \in Nat, NEW q \in Questions,
         agCache' = Stored(q, [time |-> agNow, alone |-> q])
  PROVE  CacheIsSound'
<1> DEFINE e == [time |-> agNow, alone |-> q]
           oldest == CHOOSE k \in Present : \A j \in Present : agCache[k].time <= agCache[j].time
           room == IF Cardinality(Present) >= CacheEntries
                   THEN [agCache EXCEPT ![oldest] = Empty] ELSE agCache
<1>a. /\ IsFiniteSet(Questions) /\ CacheEntries \in Nat \ {0} /\ Present \subseteq Questions
      /\ \A k \in Questions : agCache[k].time \in Int
  BY AgentAssumption DEF Present, CacheOK, Entries
<1>b. IsFiniteSet(Present) /\ Cardinality(Present) \in Nat /\ Cardinality(Present) <= CacheEntries
  <2>1. IsFiniteSet(Present) /\ Cardinality(Present) \in Nat
    BY <1>a, PartOfFinite
  <2> QED
    BY <2>1 DEF CacheIsSound, Present
<1>c. \A k \in Questions : agCache[k].time >= 0 => agCache[k].alone = k
  BY DEF CacheIsSound
<1>1. agCache' = [room EXCEPT ![q] = e]
  BY DEF Stored, Present
<1>d. e.time >= 0 /\ e.alone = q
  OBVIOUS
<1> HIDE DEF e
<1>2. CASE Cardinality(Present) >= CacheEntries
  <2>1. Present # {}
    <3>1. Cardinality(Present) # 0
      BY <1>2, <1>a, <1>b
    <3> QED
      BY <3>1, FS_EmptySet
  <2>2. oldest \in Present
    <3> DEFINE times == {agCache[k].time : k \in Present}
    <3>1. times \subseteq Nat /\ times # {}
      BY <2>1, <1>a DEF Present
    <3>2. PICK t \in times : \A u \in times : t <= u
      <4> HIDE DEF times
      <4> QED
        BY <3>1, LeastOf
    <3>3. PICK k \in Present : agCache[k].time = t
      OBVIOUS
    <3>4. \A j \in Present : agCache[k].time <= agCache[j].time
      BY <3>2, <3>3
    <3> QED
      BY <3>3, <3>4
  <2>3. room = [agCache EXCEPT ![oldest] = Empty]
    BY <1>2
  <2> HIDE DEF oldest, room
  <2>4. \A k \in Questions : agCache'[k] = IF k = q THEN e ELSE IF k = oldest THEN Empty ELSE agCache[k]
    BY <1>1, <2>2, <2>3, <1>a DEF CacheOK
  <2>5. Present' \subseteq (Present \ {oldest}) \union {q}
    <3> SUFFICES ASSUME NEW k \in Questions, agCache'[k].time >= 0, k # q
                 PROVE  k \in Present /\ k # oldest
      BY DEF Present
    <3>1. CASE k = oldest
      <4>1. agCache'[k].time = -1
        BY <3>1, <2>4, AgentFacts
      <4> QED
        BY <4>1
    <3>2. CASE k # oldest
      BY <3>2, <2>4 DEF Present
    <3> QED
      BY <3>1, <3>2
  <2>6. /\ IsFiniteSet(Present \ {oldest})
        /\ Cardinality(Present \ {oldest}) = Cardinality(Present) - 1
    BY <2>2, <1>b, FS_RemoveElement
  <2>7. /\ IsFiniteSet((Present \ {oldest}) \union {q})
        /\ Cardinality((Present \ {oldest}) \union {q}) <= Cardinality(Present)
    <3> DEFINE rest == Present \ {oldest}
    <3>1. IsFiniteSet(rest) /\ Cardinality(rest) = Cardinality(Present) - 1
      BY <2>6
    <3> HIDE DEF rest
    <3>2. /\ IsFiniteSet(rest \union {q})
          /\ Cardinality(rest \union {q}) = IF q \in rest THEN Cardinality(rest) ELSE Cardinality(rest) + 1
      BY <3>1, FS_AddElement
    <3>3. Cardinality(rest \union {q}) <= Cardinality(Present)
      BY <3>1, <3>2, <1>b
    <3> QED
      BY <3>2, <3>3 DEF rest
  <2>8. Cardinality(Present') <= Cardinality(Present)
    <3>0. PICK A, B : A = Present' /\ B = (Present \ {oldest}) \union {q}
      OBVIOUS
    <3>1. /\ Cardinality(A) <= Cardinality(B)
          /\ Cardinality(A) \in Nat /\ Cardinality(B) \in Nat
      BY <3>0, <2>5, <2>7, PartOfFinite
    <3>2. Cardinality(B) <= Cardinality(Present) /\ Cardinality(Present') = Cardinality(A)
      BY <3>0, <2>7
    <3> QED
      BY <3>1, <3>2, <1>b
  <2>9. Cardinality(Present') <= CacheEntries
    <3>0. PICK A, B : A = Present' /\ B = (Present \ {oldest}) \union {q}
      OBVIOUS
    <3>1. Cardinality(A) \in Nat /\ A = Present'
      BY <3>0, <2>5, <2>7, PartOfFinite
    <3> QED
      BY <2>8, <3>1, <1>a, <1>b
  <2>10. \A k \in Questions : agCache'[k].time >= 0 => agCache'[k].alone = k
    BY <2>4, <1>c, <1>d, AgentFacts
  <2> QED
    BY <2>9, <2>10 DEF CacheIsSound, Present
<1>3. CASE ~(Cardinality(Present) >= CacheEntries)
  <2>1. \A k \in Questions : agCache'[k] = IF k = q THEN e ELSE agCache[k]
    BY <1>1, <1>3 DEF CacheOK
  <2>2. Present' \subseteq Present \union {q}
    BY <2>1 DEF Present
  <2>3. IsFiniteSet(Present \union {q}) /\ Cardinality(Present \union {q}) <= Cardinality(Present) + 1
    <3>1. /\ IsFiniteSet(Present \union {q})
          /\ Cardinality(Present \union {q}) =
                IF q \in Present THEN Cardinality(Present) ELSE Cardinality(Present) + 1
      BY <1>b, FS_AddElement
    <3> QED
      BY <3>1, <1>b
  <2>4. /\ Cardinality(Present') <= Cardinality(Present \union {q})
        /\ Cardinality(Present') \in Nat /\ Cardinality(Present \union {q}) \in Nat
    <3>1. PICK A, B : A = Present' /\ B = Present \union {q}
      OBVIOUS
    <3>2. Cardinality(A) <= Cardinality(B) /\ Cardinality(A) \in Nat /\ Cardinality(B) \in Nat
      BY <3>1, <2>2, <2>3, PartOfFinite
    <3> QED
      BY <3>1, <3>2
  <2>5. Cardinality(Present') <= CacheEntries
    BY <2>3, <2>4, <1>3, <1>a, <1>b
  <2>6. \A k \in Questions : agCache'[k].time >= 0 => agCache'[k].alone = k
    BY <2>1, <1>c, <1>d
  <2> QED
    BY <2>5, <2>6 DEF CacheIsSound, Present
<1> QED
  BY <1>2, <1>3

LEMMA BlankCache == ChatBlank => CacheIsSound
<1> SUFFICES ASSUME ChatBlank PROVE CacheIsSound
  OBVIOUS
<1>1. \A q \in Questions : agCache[q].time = -1
  BY AgentFacts DEF ChatBlank
<1>2. \A q \in Questions : ~(agCache[q].time >= 0)
  <2> TAKE q \in Questions
  <2> QED
    BY <1>1
<1>3. {q \in Questions : agCache[q].time >= 0} = {}
  BY <1>2
<1>4. Cardinality({q \in Questions : agCache[q].time >= 0}) <= CacheEntries
  <2>1. Cardinality({q \in Questions : agCache[q].time >= 0}) = 0
    BY <1>3, FS_EmptySet
  <2> QED
    BY <2>1, AgentAssumption
<1> QED
  BY <1>2, <1>4 DEF CacheIsSound

LEMMA CacheNext == AgentBase /\ CacheIsSound /\ [AgentNext]_agVars => CacheIsSound'
<1> SUFFICES ASSUME AgentBase, CacheIsSound, [AgentNext]_agVars PROVE CacheIsSound'
  OBVIOUS
<1>a. AgentTypeOK /\ CacheOK /\ agNow \in Nat
  BY AgentTypeIs, AgentFacts DEF AgentBase, ClockOK
<1>1. CASE UNCHANGED agCache
  BY <1>1 DEF CacheIsSound
<1>2. ASSUME NEW r \in ChatThreads, AnswerText(r) PROVE CacheIsSound'
  <2>1. CASE agTurn[r].alone # 0
    <3>1. PICK q \in Questions : q = agTurn[r].alone
      BY <2>1, <1>a, TurnFields
    <3> QED
      BY <3>1, <2>1, <1>2, <1>a, StoredSound DEF AnswerText
  <2>2. CASE agTurn[r].alone = 0
    BY <2>2, <1>1, <1>2 DEF AnswerText
  <2> QED
    BY <2>1, <2>2
<1>3. ASSUME NEW r \in ChatThreads, Ask(r) PROVE CacheIsSound'
  <2>1. PICK q : agCache' = [agCache EXCEPT ![q] = Empty]
    BY <1>3 DEF Ask
  <2>2. \A k \in Questions : agCache'[k] = agCache[k] \/ agCache'[k] = Empty
    BY <2>1, <1>a DEF CacheOK
  <2>a. \A k \in Questions : agCache'[k].time >= 0 => agCache'[k] = agCache[k]
    <3> SUFFICES ASSUME NEW k \in Questions, agCache'[k] # agCache[k] PROVE ~(agCache'[k].time >= 0)
      OBVIOUS
    <3>1. agCache'[k].time = -1
      BY <2>2, AgentFacts
    <3> QED
      BY <3>1
  <2>3. Present' \subseteq Present /\ Present \subseteq Questions
    BY <2>a DEF Present
  <2>4. IsFiniteSet(Present) /\ Cardinality(Present) \in Nat
    BY <2>3, AgentAssumption, PartOfFinite
  <2>5. Cardinality(Present') <= Cardinality(Present) /\ Cardinality(Present') \in Nat
    <3>1. PICK A, B : A = Present' /\ B = Present
      OBVIOUS
    <3>2. Cardinality(A) <= Cardinality(B) /\ Cardinality(A) \in Nat
      BY <3>1, <2>3, <2>4, PartOfFinite
    <3> QED
      BY <3>1, <3>2
  <2>6. Cardinality(Present') <= CacheEntries
    BY <2>4, <2>5, AgentAssumption DEF CacheIsSound, Present
  <2> QED
    BY <2>a, <2>6 DEF CacheIsSound, Present
<1>4. ASSUME NEW r \in ChatThreads, ProcessAborts(r) PROVE CacheIsSound'
  <2>1. (ChatBlank => CacheIsSound)'
    BY BlankCache, PTL
  <2> QED
    BY <2>1, <1>4, AbortBlanks
<1> QED
  BY <1>1, <1>2, <1>3, <1>4 DEF AgentNext, TurnStep, ChatStart, CacheHit, RequestThrows,
     AnswerWithoutEngine, AnswerCalls, ToolResult, ChatTick, agVars

-----------------------------------------------------------------------------
(* Agent: the end of a turn *)

\* The measure: a round is worth more than all that can happen in it.
LEMMA RoundsLeft ==
  ASSUME NEW k \in Nat, k < MaxRounds
  PROVE  LET P(x) == (MaxRounds - x) * (MaxCalls + 3) IN
         P(k) \in Nat /\ (k + 1 < MaxRounds => P(k + 1) = P(k) - (MaxCalls + 3))
<1>1. MaxRounds \in Nat /\ MaxCalls \in Nat
  BY AgentAssumption
<1>2. PICK M \in Nat : M = MaxCalls + 3
  BY <1>1
<1>3. PICK R \in Nat : R = MaxRounds - k
  BY <1>1
<1>4. R * M \in Nat /\ (R - 1) * M = R * M - M
  OBVIOUS
<1>5. MaxRounds - (k + 1) = R - 1
  BY <1>1, <1>3
<1> QED
  BY <1>2, <1>3, <1>4, <1>5

LEMMA TurnsEndStep ==
  ASSUME AgentBase, [AgentNext]_agVars, NEW r \in ChatThreads, agTurn[r].pc # "idle",
         agTurn'[r] # agTurn[r]
  PROVE  Remaining(agTurn'[r]) < Remaining(agTurn[r])
<1>a. AgentTypeOK /\ TurnsOK /\ TurnInv /\ agTurn[r] \in Turns
  BY AgentTypeIs DEF AgentBase, TurnsOK
<1> DEFINE P(x) == (MaxRounds - x) * (MaxCalls + 3)
           k == agTurn[r].round
<1>b. /\ P(k) \in Nat /\ MaxCalls \in Nat /\ k \in Nat
      /\ k + 1 < MaxRounds => P(k + 1) = P(k) - (MaxCalls + 3)
  BY <1>a, TurnFields, RoundsLeft, AgentAssumption
<1>c. agTurn[r].calls \in Nat /\ agTurn[r].calls <= MaxCalls /\ agTurn[r].done \in Nat
  BY <1>a, TurnFields
<1>d. /\ agTurn[r].pc = "ask" => Remaining(agTurn[r]) = P(k) + MaxCalls + 2
      /\ agTurn[r].pc = "wait" => Remaining(agTurn[r]) = P(k) + MaxCalls + 1
      /\ agTurn[r].pc = "tools" => Remaining(agTurn[r]) = P(k) + agTurn[r].calls - agTurn[r].done
  BY DEF Remaining
<1>e. Remaining(NoTurn) = 0
  BY AgentFacts DEF Remaining
<1>f. ASSUME NEW s \in ChatThreads, NEW t \in Turns, SetTurn(s, t)
      PROVE  s = r /\ agTurn'[r] = t
  BY <1>f, <1>a, SetTurnIs DEF Turned
<1>g. agTurn[r].pc = "tools" => agTurn[r].done < agTurn[r].calls
  BY <1>a DEF TurnInv
<1>h. Remaining(agTurn[r]) > 0
  <2>1. agTurn[r].pc \in {"ask", "wait", "tools"}
    BY <1>a DEF Turns
  <2> HIDE DEF P, k
  <2> QED
    BY <2>1, <1>b, <1>c, <1>d, <1>g
<1>i. SetTurn(r, NoTurn) => Remaining(agTurn'[r]) < Remaining(agTurn[r])
  <2>1. SetTurn(r, NoTurn) => agTurn'[r] = NoTurn
    BY <1>f, AgentFacts
  <2> QED
    BY <2>1, <1>e, <1>h
<1>1. ASSUME NEW s \in ChatThreads, NEW c \in Conversations, NEW q \in Questions, ChatStart(s, c, q)
      PROVE  FALSE
  BY <1>1, <1>a, <1>f, TurnForms DEF ChatStart
<1>2. ASSUME NEW s \in ChatThreads, CacheHit(s) \/ AnswerWithoutEngine(s) \/ AnswerText(s)
      PROVE  Remaining(agTurn'[r]) < Remaining(agTurn[r])
  <2>1. SetTurn(s, NoTurn)
    BY <1>2 DEF CacheHit, AnswerWithoutEngine, AnswerText
  <2>2. s = r
    BY <2>1, <1>f, AgentFacts
  <2> QED
    BY <2>1, <2>2, <1>i
<1>3. ASSUME NEW s \in ChatThreads, Ask(s) PROVE Remaining(agTurn'[r]) < Remaining(agTurn[r])
  <2>1. PICK q \in Alone(agTurn[s].conv) : SetTurn(s, [agTurn[s] EXCEPT !.pc = "wait", !.alone = q])
    BY <1>3 DEF Ask
  <2>2. s \in Busy(agTurn[s].conv) /\ agTurn[s].conv \in Conversations /\ agTurn[s] \in Turns
    BY <1>3, <1>a, TurnFields DEF Ask, Busy
  <2>3. q \in Questions \union {0}
    BY <2>1, <2>2, AloneType
  <2>4. s = r /\ agTurn'[r] = [agTurn[r] EXCEPT !.pc = "wait", !.alone = q]
    BY <2>1, <2>2, <2>3, <1>f, TurnForms
  <2>5. agTurn'[r].pc = "wait" /\ agTurn'[r].round = k /\ agTurn[r].pc = "ask"
    BY <2>4, <1>3, <1>a DEF Turns, Ask
  <2>6. Remaining(agTurn'[r]) = P(k) + MaxCalls + 1
    BY <2>5 DEF Remaining
  <2> HIDE DEF P, k
  <2> QED
    BY <2>5, <2>6, <1>b, <1>d
<1>4. ASSUME NEW s \in ChatThreads, NEW n \in 1..MaxCalls, AnswerCalls(s, n)
      PROVE  Remaining(agTurn'[r]) < Remaining(agTurn[r])
  <2>1. agTurn[s] \in Turns
    BY <1>a, TurnFields
  <2>2. s = r /\ agTurn'[r] = [agTurn[r] EXCEPT !.pc = "tools", !.calls = n, !.done = 0]
    BY <2>1, <1>4, <1>f, TurnForms DEF AnswerCalls
  <2>3. /\ agTurn'[r].pc = "tools" /\ agTurn'[r].round = k /\ agTurn'[r].calls = n
        /\ agTurn'[r].done = 0 /\ agTurn[r].pc = "wait"
    BY <2>2, <1>4, <1>a DEF Turns, AnswerCalls
  <2>4. Remaining(agTurn'[r]) = P(k) + n - 0
    BY <2>3 DEF Remaining
  <2> HIDE DEF P, k
  <2> QED
    BY <2>3, <2>4, <1>b, <1>d
<1>5. ASSUME NEW s \in ChatThreads, ToolResult(s) PROVE Remaining(agTurn'[r]) < Remaining(agTurn[r])
  <2>1. agTurn[s] \in Turns /\ agTurn[s].done < agTurn[s].calls
    BY <1>5, <1>a, TurnFields DEF ToolResult, TurnInv
  <2>2. CASE agTurn[s].done + 1 # agTurn[s].calls
    <3>1. s = r /\ agTurn'[r] = [agTurn[r] EXCEPT !.done = @ + 1]
      BY <2>1, <2>2, <1>5, <1>f, TurnForms DEF ToolResult
    <3>2. /\ agTurn'[r].pc = "tools" /\ agTurn'[r].round = k /\ agTurn'[r].calls = agTurn[r].calls
          /\ agTurn'[r].done = agTurn[r].done + 1 /\ agTurn[r].pc = "tools"
      BY <3>1, <1>5, <1>a DEF Turns, ToolResult
    <3>3. Remaining(agTurn'[r]) = P(k) + agTurn[r].calls - (agTurn[r].done + 1)
      BY <3>2 DEF Remaining
    <3> HIDE DEF P, k
    <3> QED
      BY <3>2, <3>3, <1>b, <1>c, <1>d
  <2>3. CASE agTurn[s].done + 1 = agTurn[s].calls /\ agTurn[s].round + 1 < MaxRounds
    <3>1. s = r /\ agTurn'[r] = [agTurn[r] EXCEPT !.pc = "ask", !.round = @ + 1, !.alone = 0,
                                                  !.calls = 0, !.done = 0]
      BY <2>1, <2>3, <1>5, <1>f, TurnForms DEF ToolResult
    <3>2. agTurn'[r].pc = "ask" /\ agTurn'[r].round = k + 1 /\ agTurn[r].pc = "tools"
      BY <3>1, <1>5, <1>a DEF Turns, ToolResult
    <3>3. Remaining(agTurn'[r]) = P(k + 1) + MaxCalls + 2
      BY <3>2 DEF Remaining
    <3>4. P(k + 1) = P(k) - (MaxCalls + 3)
      BY <3>1, <2>3, <1>b
    <3> HIDE DEF P, k
    <3> QED
      BY <3>2, <3>3, <3>4, <1>b, <1>c, <1>d, <1>g
  <2>4. CASE agTurn[s].done + 1 = agTurn[s].calls /\ ~(agTurn[s].round + 1 < MaxRounds)
    <3>1. SetTurn(s, NoTurn)
      BY <2>4, <1>5 DEF ToolResult
    <3>2. s = r
      BY <3>1, <1>f, AgentFacts
    <3> QED
      BY <3>1, <3>2, <1>i
  <2> QED
    BY <2>2, <2>3, <2>4
<1>6. CASE ChatTick \/ UNCHANGED agVars
  BY <1>6 DEF ChatTick, agVars
<1>7. ASSUME NEW s \in ChatThreads, RequestThrows(s) PROVE Remaining(agTurn'[r]) < Remaining(agTurn[r])
  <2>1. SetTurn(s, NoTurn)
    BY <1>7 DEF RequestThrows
  <2>2. s = r
    BY <2>1, <1>f, AgentFacts
  <2> QED
    BY <2>1, <2>2, <1>i
<1>8. ASSUME NEW s \in ChatThreads, ProcessAborts(s) PROVE Remaining(agTurn'[r]) < Remaining(agTurn[r])
  <2>1. agTurn'[r] = NoTurn
    BY <1>8 DEF ProcessAborts
  <2> QED
    BY <2>1, <1>e, <1>h
<1> QED
  BY <1>1, <1>2, <1>3, <1>4, <1>5, <1>6, <1>7, <1>8 DEF AgentNext, TurnStep

-----------------------------------------------------------------------------
(* Agent: theorems *)

AgentInv == AgentBase /\ LegalInv /\ CacheIsSound

LEMMA AgentInvInit == AgentInit => AgentInv
  BY AgentBaseInit, BlankLegal, BlankCache DEF AgentInit, AgentInv

LEMMA AgentInvNext == AgentInv /\ [AgentNext]_agVars => AgentInv'
<1> SUFFICES ASSUME AgentInv, [AgentNext]_agVars PROVE AgentInv'
  OBVIOUS
<1>1. AgentTypeOK'
  BY AgentTypeNext DEF AgentInv
<1>2. TurnInv' /\ OpenInv' /\ LegalInv'
  BY TalkNext DEF AgentInv
<1>3. CacheIsSound'
  BY CacheNext DEF AgentInv
<1> QED
  BY <1>1, <1>2, <1>3 DEF AgentInv, AgentBase

\* When no thread works on it, what a conversation holds can be shown and cut.
LEMMA LegalIsSound == AgentInv => TranscriptsPaired /\ TruncateKeepsPairs /\ CacheIsSound
<1> SUFFICES ASSUME AgentInv PROVE TranscriptsPaired /\ TruncateKeepsPairs /\ CacheIsSound
  OBVIOUS
<1>1. ASSUME NEW c \in Conversations, agConv[c] # Mixed
      PROVE  Paired(agConv[c]) /\ (Busy(c) = {} => Answered(agConv[c]))
  BY <1>1 DEF AgentInv, LegalInv, Legal
<1>2. ASSUME NEW c \in Conversations, agConv[c] # Mixed, Busy(c) = {}, NEW n \in 0..Len(agConv[c])
      PROVE  LET s == Truncate(agConv[c], n) IN Len(s) <= n /\ Paired(s) /\ Answered(s)
  <2>1. agConv[c] \in Seq(Messages)
    BY AgentTypeIs DEF AgentInv, AgentBase, ConvOK
  <2>2. n \in Nat
    BY <2>1
  <2> QED
    BY <1>1, <1>2, <2>1, <2>2, TruncateLegal
<1> QED
  BY <1>1, <1>2 DEF TranscriptsPaired, TruncateKeepsPairs, AgentInv

\* The conversations, turns and cache have their types: a turn stays within max_rounds, also
\* when other requests work on its conversation (agent_turn).
THEOREM AgentTypeCorrect == AgentSpec => []AgentTypeOK
<1>1. AgentInv => AgentTypeOK
  BY DEF AgentInv, AgentBase
<1> QED
  BY <1>1, AgentInvInit, AgentInvNext, PTL DEF AgentSpec

\* Transcripts are legal whenever requests take turns on a conversation, cut or whole, the
\* cache is bounded and holds answers to the questions themselves, and each step of a turn
\* brings its end nearer (agent_turn, ConversationState::truncate, semantic_cache_store).
THEOREM ChatIsSound == AgentSpec => ChatSound
<1>1. AgentInv /\ [AgentNext]_agVars =>
         [\A r \in ChatThreads : agTurn[r].pc # "idle" /\ agTurn'[r] # agTurn[r]
             => Remaining(agTurn'[r]) < Remaining(agTurn[r])]_agVars
  <2> SUFFICES ASSUME AgentInv, [AgentNext]_agVars, NEW r \in ChatThreads,
                      agTurn[r].pc # "idle", agTurn'[r] # agTurn[r]
               PROVE  Remaining(agTurn'[r]) < Remaining(agTurn[r])
    OBVIOUS
  <2>1. AgentBase
    BY DEF AgentInv
  <2> QED
    BY <2>1, TurnsEndStep
<1> QED
  BY <1>1, AgentInvInit, AgentInvNext, LegalIsSound, PTL DEF AgentSpec, ChatSound, TurnsEnd

-----------------------------------------------------------------------------
(* Auth: types, and what a user was told *)

\* The timeout of a device without a configuration is one of the timeouts.
LEMMA DefaultTimeoutType == DefaultTimeout \in Timeouts
  BY AuthAssumption DEF DefaultTimeout

\* A user was told the truth, and a torn device.json comes from a save that failed.
Torn == auFile.setup = 2 => auFile = Corrupt /\ auUnsaved = 1
AuthInv == AuthTypeOK /\ AnswersStayTrue /\ Torn

USE AuthAssumption DEF Accept, SetThread, Idle, Thread, NoToken, Times, Unused, Gone

LEMMA AuthInvInit == AuthInit => AuthInv
  BY DefaultTimeoutType
     DEF AuthInit, AuthInv, AuthTypeOK, AnswersStayTrue, LogoutIsFinal, FileMatchesMemory, Blank,
         Torn

\* One step keeps the types.
LEMMA AuthTypeNext == AuthTypeOK /\ Torn /\ [AuthNext]_auVars => AuthTypeOK'
<1> SUFFICES ASSUME AuthTypeOK, Torn, [AuthNext]_auVars PROVE AuthTypeOK'
  OBVIOUS
<1> USE DefaultTimeoutType DEF AuthTypeOK
<1>1. ASSUME NEW t \in AuthThreads, NEW p \in Passwords, SetupTest(t, p) PROVE AuthTypeOK'
  BY <1>1 DEF SetupTest
<1>2. ASSUME NEW t \in AuthThreads, NEW p \in Passwords, LoginCheck(t, p) PROVE AuthTypeOK'
  BY <1>2 DEF LoginCheck
<1>3. ASSUME NEW t \in AuthThreads, NEW c \in Passwords, NEW p \in Passwords, ChangeVerify(t, c, p)
      PROVE  AuthTypeOK'
  BY <1>3 DEF ChangeVerify
<1>4. ASSUME NEW t \in AuthThreads, NEW s \in Timeouts, SetSessionTimeout(t, s) PROVE AuthTypeOK'
  <2>1. auMem' \in [hash: Passwords \union {0}, setup: {0, 1}, timeout: Timeouts]
    BY <1>4 DEF SetSessionTimeout
  <2>2. auThread' \in [AuthThreads ->
            [pc: {"idle", "setup", "change", "save", "savesetup", "create", "verify", "record",
                  "touch"},
             pw: Passwords \union {0}, token: Tokens \union {NoToken}]]
    BY <1>4 DEF SetSessionTimeout
  <2>3. auRequests' \in 0..MaxRequests
    <3>1. auRequests < MaxRequests /\ auRequests' = auRequests + 1
      BY <1>4, Zenon DEF SetSessionTimeout
    <3> QED
      BY <3>1
  <2>4. UNCHANGED <<auFile, auSession, auAttempt, auNow, auWrong, auLoggedOut, auUnsaved,
                    auRestarts, auSaveErrors>>
    BY <1>4 DEF SetSessionTimeout
  <2> QED
    BY <2>1, <2>2, <2>3, <2>4
<1>5. ASSUME NEW t \in AuthThreads, NEW s \in Tokens, RequestCheck(t, s) PROVE AuthTypeOK'
  BY <1>5 DEF RequestCheck
<1>6. ASSUME NEW t \in AuthThreads, NEW s \in Tokens, Logout(t, s) PROVE AuthTypeOK'
  BY <1>6 DEF Logout
<1>7. ASSUME NEW t \in AuthThreads, StorePassword(t) PROVE AuthTypeOK'
  BY <1>7 DEF StorePassword
<1>8. ASSUME NEW t \in AuthThreads, SaveConfig(t) PROVE AuthTypeOK'
  BY SMTT(30), <1>8 DEF SaveConfig, SavedThread, Corrupt
<1>9. ASSUME NEW t \in AuthThreads, LoginVerify(t) PROVE AuthTypeOK'
  BY SMTT(30), <1>9 DEF LoginVerify
<1>10. ASSUME NEW t \in AuthThreads, RecordFailedLogin(t) PROVE AuthTypeOK'
  BY SMTT(30), <1>10 DEF RecordFailedLogin
<1>11. ASSUME NEW t \in AuthThreads, CreateSession(t) PROVE AuthTypeOK'
  BY <1>11 DEF CreateSession
<1>12. ASSUME NEW t \in AuthThreads, RequestTouch(t) PROVE AuthTypeOK'
  BY <1>12 DEF RequestTouch
<1>13. CASE ExpireSessions
  BY <1>13 DEF ExpireSessions
<1>14. CASE Tick
  BY <1>14 DEF Tick
<1>15. CASE AuthRestart
  BY <1>15 DEF AuthRestart, Blank, Torn
<1>16. CASE UNCHANGED auVars
  BY <1>16 DEF auVars
<1> QED
  BY <1>1, <1>2, <1>3, <1>4, <1>5, <1>6, <1>7, <1>8, <1>9, <1>10, <1>11, <1>12, <1>13, <1>14,
     <1>15, <1>16 DEF AuthNext

\* Nothing brings a session back.
LEMMA LogoutNext == AuthTypeOK /\ LogoutIsFinal /\ [AuthNext]_auVars => LogoutIsFinal'
<1> SUFFICES ASSUME AuthTypeOK, LogoutIsFinal, [AuthNext]_auVars PROVE LogoutIsFinal'
  OBVIOUS
<1> USE DEF AuthTypeOK, LogoutIsFinal
<1>1. ASSUME NEW t \in AuthThreads, NEW p \in Passwords, SetupTest(t, p) PROVE LogoutIsFinal'
  BY <1>1 DEF SetupTest
<1>2. ASSUME NEW t \in AuthThreads, NEW p \in Passwords, LoginCheck(t, p) PROVE LogoutIsFinal'
  BY <1>2 DEF LoginCheck
<1>3. ASSUME NEW t \in AuthThreads, NEW c \in Passwords, NEW p \in Passwords, ChangeVerify(t, c, p)
      PROVE  LogoutIsFinal'
  BY <1>3 DEF ChangeVerify
<1>4. ASSUME NEW t \in AuthThreads, NEW s \in Timeouts, SetSessionTimeout(t, s) PROVE LogoutIsFinal'
  BY <1>4 DEF SetSessionTimeout
<1>5. ASSUME NEW t \in AuthThreads, NEW s \in Tokens, RequestCheck(t, s) PROVE LogoutIsFinal'
  BY <1>5 DEF RequestCheck
<1>6. ASSUME NEW t \in AuthThreads, NEW s \in Tokens, Logout(t, s) PROVE LogoutIsFinal'
  BY <1>6 DEF Logout
<1>7. ASSUME NEW t \in AuthThreads, StorePassword(t) PROVE LogoutIsFinal'
  BY <1>7 DEF StorePassword
<1>8. ASSUME NEW t \in AuthThreads, SaveConfig(t) PROVE LogoutIsFinal'
  BY <1>8 DEF SaveConfig, SavedThread, Corrupt
<1>9. ASSUME NEW t \in AuthThreads, LoginVerify(t) PROVE LogoutIsFinal'
  BY <1>9 DEF LoginVerify
<1>10. ASSUME NEW t \in AuthThreads, RecordFailedLogin(t) PROVE LogoutIsFinal'
  BY <1>10 DEF RecordFailedLogin
<1>11. ASSUME NEW t \in AuthThreads, CreateSession(t) PROVE LogoutIsFinal'
  <2>1. \A s \in Tokens : auSession[s] = Gone => auSession'[s] = Gone
    BY <1>11 DEF CreateSession
  <2> QED
    BY <1>11, <2>1 DEF CreateSession
<1>12. ASSUME NEW t \in AuthThreads, RequestTouch(t) PROVE LogoutIsFinal'
  <2>1. \A s \in Tokens : auSession[s] = Gone => auSession'[s] = Gone
    BY <1>12 DEF RequestTouch
  <2> QED
    BY <1>12, <2>1 DEF RequestTouch
<1>13. CASE ExpireSessions
  BY <1>13 DEF ExpireSessions
<1>14. CASE Tick
  BY <1>14 DEF Tick
<1>15. CASE AuthRestart
  BY <1>15 DEF AuthRestart, Blank, Corrupt
<1>16. CASE UNCHANGED auVars
  BY <1>16 DEF auVars
<1> QED
  BY <1>1, <1>2, <1>3, <1>4, <1>5, <1>6, <1>7, <1>8, <1>9, <1>10, <1>11, <1>12, <1>13, <1>14,
     <1>15, <1>16 DEF AuthNext

\* Who changes the memory is about to save, and who saves writes all of it.
FileInv == FileMatchesMemory /\ Torn

LEMMA FileNext == AuthTypeOK /\ FileInv /\ [AuthNext]_auVars => FileInv'
<1> SUFFICES ASSUME AuthTypeOK, FileInv, [AuthNext]_auVars PROVE FileInv'
  OBVIOUS
<1> USE DEF AuthTypeOK, FileInv, FileMatchesMemory, Torn
<1>1. ASSUME NEW t \in AuthThreads, NEW p \in Passwords, SetupTest(t, p) PROVE FileInv'
  BY <1>1 DEF SetupTest
<1>2. ASSUME NEW t \in AuthThreads, NEW p \in Passwords, LoginCheck(t, p) PROVE FileInv'
  BY <1>2 DEF LoginCheck
<1>3. ASSUME NEW t \in AuthThreads, NEW c \in Passwords, NEW p \in Passwords, ChangeVerify(t, c, p)
      PROVE  FileInv'
  BY <1>3 DEF ChangeVerify
<1>4. ASSUME NEW t \in AuthThreads, NEW s \in Timeouts, SetSessionTimeout(t, s) PROVE FileInv'
  BY <1>4 DEF SetSessionTimeout
<1>5. ASSUME NEW t \in AuthThreads, NEW s \in Tokens, RequestCheck(t, s) PROVE FileInv'
  BY <1>5 DEF RequestCheck
<1>6. ASSUME NEW t \in AuthThreads, NEW s \in Tokens, Logout(t, s) PROVE FileInv'
  BY <1>6 DEF Logout
<1>7. ASSUME NEW t \in AuthThreads, StorePassword(t) PROVE FileInv'
  BY <1>7 DEF StorePassword
<1>8. ASSUME NEW t \in AuthThreads, SaveConfig(t) PROVE FileInv'
  BY <1>8 DEF SaveConfig, SavedThread, Corrupt
<1>9. ASSUME NEW t \in AuthThreads, LoginVerify(t) PROVE FileInv'
  BY <1>9 DEF LoginVerify
<1>10. ASSUME NEW t \in AuthThreads, RecordFailedLogin(t) PROVE FileInv'
  BY <1>10 DEF RecordFailedLogin
<1>11. ASSUME NEW t \in AuthThreads, CreateSession(t) PROVE FileInv'
  BY <1>11 DEF CreateSession
<1>12. ASSUME NEW t \in AuthThreads, RequestTouch(t) PROVE FileInv'
  BY <1>12 DEF RequestTouch
<1>13. CASE ExpireSessions
  BY <1>13 DEF ExpireSessions
<1>14. CASE Tick
  BY <1>14 DEF Tick
<1>15. CASE AuthRestart
  BY <1>15 DEF AuthRestart, Blank, Corrupt
<1>16. CASE UNCHANGED auVars
  BY <1>16 DEF auVars
<1> QED
  BY <1>1, <1>2, <1>3, <1>4, <1>5, <1>6, <1>7, <1>8, <1>9, <1>10, <1>11, <1>12, <1>13, <1>14,
     <1>15, <1>16 DEF AuthNext

LEMMA AuthInvNext == AuthInv /\ [AuthNext]_auVars => AuthInv'
  BY AuthTypeNext, LogoutNext, FileNext DEF AuthInv, AnswersStayTrue, FileInv

\* Every reachable state has its type (auth.cpp).
THEOREM AuthTypeCorrect == AuthSpec => []AuthTypeOK
<1>1. AuthInv => AuthTypeOK
  BY DEF AuthInv
<1> QED
  BY <1>1, AuthInvInit, AuthInvNext, PTL DEF AuthSpec

\* Who logged out stays out, and the password and timeout that were set are those of the next
\* start unless the last save failed, in every interleaving of any number of threads
\* (touch_session, erase_session, set_device_password, save_config).
THEOREM AnswersAreTrue == AuthSpec => []AnswersStayTrue
<1>1. AuthInv => AnswersStayTrue
  BY DEF AuthInv
<1> QED
  BY <1>1, AuthInvInit, AuthInvNext, PTL DEF AuthSpec

-----------------------------------------------------------------------------
(* Auth: the limit on failed logins *)

\* The threads between the check of the limit and the end of the request, and those that
\* have told "wrong" and not yet counted it.
Guessing == {t \in AuthThreads : auThread[t].pc \in {"verify", "record"}}
Uncounted == {t \in AuthThreads : auThread[t].pc = "record"}

Before(a) == IF a = 0 THEN 0 ELSE auWrong[a - 1]

\* The stretches that end now, of a length that the limit is about.
Recent == {a \in 0..auNow : auNow - a < Cooldown}

\* The history stands still after now and at each moment before.
HistoryInv == \A n \in Times : n >= auNow => auWrong[n] = auWrong[auNow]

\* What was told in a recent stretch is in the record of the address, except what the
\* threads have yet to count.
CountInv == \A a \in Recent :
    auWrong[auNow] - Before(a) > Cardinality(Uncounted) =>
        /\ auAttempt.last >= a
        /\ auAttempt.failures >= auWrong[auNow] - Before(a) - Cardinality(Uncounted)

\* What was told in a recent stretch, and what threads that passed the check may still tell.
LimitInv == \A a \in Recent :
    auWrong[auNow] - Before(a) + Cardinality(Guessing) - Cardinality(Uncounted)
        <= MaxFailures - 1 + Cardinality(AuthThreads)

PastInv == \A a, b \in Times : a <= b /\ b <= auNow /\ b - a < Cooldown =>
    auWrong[b] - Before(a) <= MaxFailures - 1 + Cardinality(AuthThreads)

GuessInv == HistoryInv /\ CountInv /\ LimitInv /\ PastInv

\* The counts are numbers, and no more threads guess than there are.
LEMMA CountsType ==
  /\ IsFiniteSet(Guessing) /\ IsFiniteSet(Uncounted)
  /\ Cardinality(AuthThreads) \in Nat
  /\ Cardinality(Guessing) \in Nat /\ Cardinality(Uncounted) \in Nat
  /\ Cardinality(Guessing) <= Cardinality(AuthThreads)
  /\ Cardinality(Uncounted) <= Cardinality(Guessing)
<1>1. Guessing \in SUBSET AuthThreads /\ Uncounted \in SUBSET Guessing
  BY DEF Guessing, Uncounted
<1>2. IsFiniteSet(Guessing) /\ Cardinality(Guessing) <= Cardinality(AuthThreads)
  BY <1>1, FS_Subset
<1>3. IsFiniteSet(Uncounted) /\ Cardinality(Uncounted) <= Cardinality(Guessing)
  BY <1>1, <1>2, FS_Subset
<1> QED
  BY <1>2, <1>3, FS_CardinalityType

HIDE AuthAssumption DEF Accept, SetThread, Idle, Thread, NoToken, Unused, Gone

\* What a step of thread t does to the counts.
LEMMA CountsChange ==
  ASSUME AuthTypeOK, NEW t \in AuthThreads, NEW pc, NEW pw, NEW token,
         SetThread(t, Thread(pc, pw, token))
  PROVE  /\ auThread[t].pc \notin {"verify", "record"} /\ pc \notin {"verify", "record"} =>
                UNCHANGED <<Guessing, Uncounted>>
         /\ auThread[t].pc = "idle" /\ pc = "verify" =>
                /\ Cardinality(Guessing') = Cardinality(Guessing) + 1
                /\ Uncounted' = Uncounted
         /\ auThread[t].pc = "verify" /\ pc = "record" =>
                /\ Guessing' = Guessing
                /\ Cardinality(Uncounted') = Cardinality(Uncounted) + 1
         /\ auThread[t].pc = "verify" /\ pc = "create" =>
                /\ Cardinality(Guessing') = Cardinality(Guessing) - 1
                /\ Uncounted' = Uncounted
         /\ auThread[t].pc = "record" /\ pc = "idle" =>
                /\ Cardinality(Guessing') = Cardinality(Guessing) - 1
                /\ Cardinality(Uncounted') = Cardinality(Uncounted) - 1
<1>a. DOMAIN auThread = AuthThreads
  BY DEF AuthTypeOK
<1>b. auThread' = [auThread EXCEPT ![t] = [pc |-> pc, pw |-> pw, token |-> token]]
  BY DEF SetThread, Thread
<1>c. \A u \in AuthThreads : auThread'[u].pc = IF u = t THEN pc ELSE auThread[u].pc
  BY <1>a, <1>b
<1>1. ASSUME auThread[t].pc \notin {"verify", "record"}, pc \notin {"verify", "record"}
      PROVE  UNCHANGED <<Guessing, Uncounted>>
  BY <1>1, <1>c DEF Guessing, Uncounted
<1>2. ASSUME auThread[t].pc = "idle", pc = "verify"
      PROVE  Cardinality(Guessing') = Cardinality(Guessing) + 1 /\ Uncounted' = Uncounted
  <2>1. Guessing' = Guessing \union {t} /\ t \notin Guessing /\ Uncounted' = Uncounted
    BY <1>2, <1>c DEF Guessing, Uncounted
  <2> QED
    BY <2>1, CountsType, FS_AddElement
<1>3. ASSUME auThread[t].pc = "verify", pc = "record"
      PROVE  Guessing' = Guessing /\ Cardinality(Uncounted') = Cardinality(Uncounted) + 1
  <2>1. Guessing' = Guessing /\ t \notin Uncounted /\ Uncounted' = Uncounted \union {t}
    BY <1>3, <1>c DEF Guessing, Uncounted
  <2> QED
    BY <2>1, CountsType, FS_AddElement
<1>4. ASSUME auThread[t].pc = "verify", pc = "create"
      PROVE  Cardinality(Guessing') = Cardinality(Guessing) - 1 /\ Uncounted' = Uncounted
  <2>1. Guessing' = Guessing \ {t} /\ t \in Guessing /\ Uncounted' = Uncounted
    BY <1>4, <1>c DEF Guessing, Uncounted
  <2> QED
    BY <2>1, CountsType, FS_RemoveElement
<1>5. ASSUME auThread[t].pc = "record", pc = "idle"
      PROVE  /\ Cardinality(Guessing') = Cardinality(Guessing) - 1
             /\ Cardinality(Uncounted') = Cardinality(Uncounted) - 1
  <2>1. /\ Guessing' = Guessing \ {t} /\ t \in Guessing
        /\ Uncounted' = Uncounted \ {t} /\ t \in Uncounted
    BY <1>5, <1>c DEF Guessing, Uncounted
  <2> QED
    BY <2>1, CountsType, FS_RemoveElement
<1> QED
  BY <1>1, <1>2, <1>3, <1>4, <1>5

\* A step that leaves the history, the clock, the record and the counts alone.
LEMMA GuessStill ==
  ASSUME GuessInv, UNCHANGED <<auWrong, auNow, auAttempt, Guessing, Uncounted>>
  PROVE  GuessInv'
  BY DEF GuessInv, HistoryInv, CountInv, LimitInv, PastInv, Recent, Before

\* A step of a thread that has nothing to do with a login.
LEMMA GuessOther ==
  ASSUME AuthTypeOK, GuessInv, NEW t \in AuthThreads, NEW pc, NEW pw, NEW token,
         SetThread(t, Thread(pc, pw, token)), UNCHANGED <<auWrong, auNow, auAttempt>>,
         auThread[t].pc \notin {"verify", "record"}, pc \notin {"verify", "record"}
  PROVE  GuessInv'
<1>1. UNCHANGED <<Guessing, Uncounted>>
  BY CountsChange
<1> QED
  BY <1>1, GuessStill

LEMMA GuessInit == AuthInit => GuessInv
<1> SUFFICES ASSUME AuthInit PROVE GuessInv
  OBVIOUS
<1>1. AuthTypeOK
  BY AuthInvInit DEF AuthInv
<1>2. auNow = 0 /\ auWrong = [n \in Times |-> 0]
  BY DEF AuthInit
<1> QED
  BY <1>1, <1>2, CountsType, AuthAssumption
     DEF GuessInv, HistoryInv, CountInv, LimitInv, PastInv, Recent, Before

\* The numbers that the limit is about.
LEMMA AuthNumbers ==
  ASSUME AuthTypeOK
  PROVE  /\ auNow \in Times /\ auWrong \in [Times -> Nat] /\ auWrong[auNow] \in Nat
         /\ auAttempt.last \in Times /\ auAttempt.failures \in Nat
         /\ \A a \in Times : Before(a) \in Nat
<1>1. /\ auNow \in Times /\ auWrong \in [Times -> Nat] /\ auAttempt.last \in Times
      /\ auAttempt.failures \in Nat
  BY DEF AuthTypeOK
<1> QED
  BY <1>1, AuthAssumption DEF Before

LEMMA GuessNext == AuthInv /\ GuessInv /\ [AuthNext]_auVars => GuessInv'
<1> SUFFICES ASSUME AuthInv, GuessInv, [AuthNext]_auVars PROVE GuessInv'
  OBVIOUS
<1> DEFINE W == auWrong[auNow]
           G == Cardinality(Guessing)
           U == Cardinality(Uncounted)
           N == Cardinality(AuthThreads)
           Bound == MaxFailures - 1 + N
<1>a. AuthTypeOK /\ AuthTypeOK'
  BY AuthInvNext DEF AuthInv
<1>b. /\ auNow \in Times /\ auWrong \in [Times -> Nat] /\ W \in Nat
      /\ auAttempt.last \in Times /\ auAttempt.failures \in Nat
      /\ G \in Nat /\ U \in Nat /\ N \in Nat /\ G <= N /\ U <= G
      /\ \A a \in Times : Before(a) \in Nat
  BY <1>a, CountsType, AuthNumbers
<1>c. G' \in Nat /\ G' <= N /\ U' \in Nat /\ U' <= G'
  <2>1. (Cardinality(Guessing) \in Nat)' /\ (Cardinality(Uncounted) \in Nat)'
        /\ (Cardinality(Uncounted) <= Cardinality(Guessing))'
        /\ (Cardinality(Guessing) <= Cardinality(AuthThreads))'
    BY CountsType, PTL
  <2> QED
    BY <2>1
<1>d. MaxFailures \in Nat \ {0} /\ Cooldown \in Nat \ {0} /\ MaxTime \in Nat
  BY AuthAssumption
<1>e. /\ auNow \in Nat /\ auAttempt.last \in Nat /\ auAttempt.failures \in Nat
      /\ W \in Nat /\ G \in Nat /\ U \in Nat /\ N \in Nat /\ G <= N /\ U <= G
      /\ MaxFailures \in Nat \ {0} /\ Cooldown \in Nat \ {0}
  BY <1>b, <1>d
<1>f. \A a \in Recent : a \in Nat /\ a <= auNow /\ auNow - a < Cooldown /\ Before(a) \in Nat
  BY <1>b, <1>d DEF Recent
<1>1. ASSUME NEW t \in AuthThreads, NEW p \in Passwords, SetupTest(t, p) PROVE GuessInv'
  <2>1. /\ SetThread(t, Thread("setup", p, NoToken)) /\ UNCHANGED <<auWrong, auNow, auAttempt>>
        /\ auThread[t].pc \notin {"verify", "record"}
    BY <1>1 DEF SetupTest, Accept, Idle, Thread
  <2> QED
    BY <2>1, <1>a, GuessOther
<1>2. ASSUME NEW t \in AuthThreads, NEW p \in Passwords, LoginCheck(t, p) PROVE GuessInv'
  <2>1. G' = G + 1 /\ U' = U
    <3>1. SetThread(t, Thread("verify", p, NoToken)) /\ auThread[t].pc = "idle"
      BY <1>2 DEF LoginCheck, Accept, Idle, Thread
    <3> QED
      BY <3>1, <1>a, CountsChange
  <2>2. UNCHANGED <<auWrong, auNow, auAttempt>> /\ ~RateLimited
    BY <1>2 DEF LoginCheck
  <2>3. LimitInv'
    <3> SUFFICES ASSUME NEW a \in Recent PROVE W - Before(a) + (G + 1) - U <= Bound
      BY <2>1, <2>2 DEF LimitInv, Recent, Before
    <3>1. a \in Nat /\ auNow - a < Cooldown /\ Before(a) \in Nat
      BY <1>f
    <3>2. CASE W - Before(a) > U
      <4>1. auAttempt.last >= a /\ auAttempt.failures >= W - Before(a) - U
        BY <3>2 DEF GuessInv, CountInv
      <4>2. auAttempt.failures < MaxFailures
        BY <4>1, <3>1, <2>2, <1>e DEF RateLimited
      <4> QED
        BY <4>1, <4>2, <3>1, <2>1, <1>c, <1>e
    <3>3. CASE ~(W - Before(a) > U)
      BY <3>3, <3>1, <2>1, <1>c, <1>e
    <3> QED
      BY <3>2, <3>3
  <2> QED
    BY <2>1, <2>2, <2>3 DEF GuessInv, HistoryInv, CountInv, PastInv, Recent, Before
<1>3. ASSUME NEW t \in AuthThreads, NEW c \in Passwords, NEW p \in Passwords, ChangeVerify(t, c, p)
      PROVE  GuessInv'
  <2>1. /\ SetThread(t, Thread("change", p, NoToken)) /\ UNCHANGED <<auWrong, auNow, auAttempt>>
        /\ auThread[t].pc \notin {"verify", "record"}
    BY <1>3 DEF ChangeVerify, Accept, Idle, Thread
  <2> QED
    BY <2>1, <1>a, GuessOther
<1>4. ASSUME NEW t \in AuthThreads, NEW s \in Timeouts, SetSessionTimeout(t, s) PROVE GuessInv'
  <2>1. /\ SetThread(t, Thread("save", 0, NoToken)) /\ UNCHANGED <<auWrong, auNow, auAttempt>>
        /\ auThread[t].pc \notin {"verify", "record"}
    BY <1>4 DEF SetSessionTimeout, Accept, Idle, Thread
  <2> QED
    BY <2>1, <1>a, GuessOther
<1>5. ASSUME NEW t \in AuthThreads, NEW s \in Tokens, RequestCheck(t, s) PROVE GuessInv'
  <2>1. /\ SetThread(t, Thread("touch", 0, s)) /\ UNCHANGED <<auWrong, auNow, auAttempt>>
        /\ auThread[t].pc \notin {"verify", "record"}
    BY <1>5 DEF RequestCheck, Accept, Idle, Thread
  <2> QED
    BY <2>1, <1>a, GuessOther
<1>6. ASSUME NEW t \in AuthThreads, NEW s \in Tokens, Logout(t, s) PROVE GuessInv'
  BY <1>6, GuessStill DEF Logout, Guessing, Uncounted
<1>7. ASSUME NEW t \in AuthThreads, StorePassword(t) PROVE GuessInv'
  <2>1. /\ \/ SetThread(t, Thread("savesetup", 0, NoToken))
           \/ SetThread(t, Thread("save", 0, NoToken))
        /\ UNCHANGED <<auWrong, auNow, auAttempt>> /\ auThread[t].pc \notin {"verify", "record"}
    BY <1>7 DEF StorePassword
  <2> QED
    BY <2>1, <1>a, GuessOther
<1>8. ASSUME NEW t \in AuthThreads, SaveConfig(t) PROVE GuessInv'
  <2>1. /\ \/ SetThread(t, Thread("create", 0, NoToken))
           \/ SetThread(t, Thread("idle", 0, NoToken))
        /\ UNCHANGED <<auWrong, auNow, auAttempt>> /\ auThread[t].pc \notin {"verify", "record"}
    BY <1>8 DEF SaveConfig, SavedThread, Idle
  <2> QED
    BY <2>1, <1>a, GuessOther
<1>9. ASSUME NEW t \in AuthThreads, LoginVerify(t) PROVE GuessInv'
  <2>1. UNCHANGED <<auNow, auAttempt>> /\ auThread[t].pc = "verify"
    BY <1>9 DEF LoginVerify
  <2>2. CASE auThread[t].pw = auMem.hash
    <3>1. G' = G - 1 /\ U' = U /\ auWrong' = auWrong
      <4>1. SetThread(t, Thread("create", 0, NoToken)) /\ auWrong' = auWrong
        BY <2>2, <1>9 DEF LoginVerify
      <4> QED
        BY <4>1, <2>1, <1>a, CountsChange
    <3>2. LimitInv'
      <4> SUFFICES ASSUME NEW a \in Recent PROVE W - Before(a) + (G - 1) - U <= Bound
        BY <2>1, <3>1 DEF LimitInv, Recent, Before
      <4> QED
        BY <1>e, <1>f DEF GuessInv, LimitInv
    <3> QED
      BY <2>1, <3>1, <3>2 DEF GuessInv, HistoryInv, CountInv, PastInv, Recent, Before
  <2>3. CASE auThread[t].pw # auMem.hash
    <3>1. /\ G' = G /\ U' = U + 1
          /\ auWrong' = [n \in Times |-> IF n < auNow THEN auWrong[n] ELSE auWrong[n] + 1]
      <4>1. /\ SetThread(t, Thread("record", 0, NoToken))
            /\ auWrong' = [n \in Times |-> IF n < auNow THEN auWrong[n] ELSE auWrong[n] + 1]
        BY <2>3, <1>9 DEF LoginVerify
      <4> QED
        BY <4>1, <2>1, <1>a, CountsChange
    <3>2. /\ W' = W + 1
          /\ \A a \in 0..auNow : Before(a)' = Before(a)
          /\ Recent' = Recent /\ Recent \subseteq 0..auNow
      BY <2>1, <3>1, <1>b, <1>d DEF Before, Recent
    <3>3. HistoryInv'
      BY <2>1, <3>1, <1>b, <1>d DEF GuessInv, HistoryInv
    <3>4. CountInv'
      <4> SUFFICES ASSUME NEW a \in Recent, (W + 1) - Before(a) > U + 1
                   PROVE  auAttempt.last >= a /\ auAttempt.failures >= (W + 1) - Before(a) - (U + 1)
        BY <2>1, <3>1, <3>2 DEF CountInv
      <4>1. Before(a) \in Nat
        BY <1>f
      <4>2. W - Before(a) > U
        BY <4>1, <1>e
      <4>3. auAttempt.last >= a /\ auAttempt.failures >= W - Before(a) - U
        BY <4>2 DEF GuessInv, CountInv
      <4> QED
        BY <4>1, <4>3, <1>e
    <3>5. \A a \in Recent : (W + 1) - Before(a) + G - (U + 1) <= Bound
      BY <1>e, <1>f DEF GuessInv, LimitInv
    <3>6. LimitInv'
      BY <2>1, <3>1, <3>2, <3>5 DEF LimitInv
    <3>7. PastInv'
      <4> SUFFICES ASSUME NEW a \in Times, NEW b \in Times, a <= b, b <= auNow, b - a < Cooldown
                   PROVE  auWrong'[b] - Before(a)' <= Bound
        BY <2>1 DEF PastInv
      <4>1. Before(a)' = Before(a)
        <5>1. a \in 0..auNow
          BY <1>d, <1>e
        <5> QED
          BY <5>1, <3>2
      <4>2. CASE b < auNow
        BY <4>1, <4>2, <3>1, <1>b, <1>d DEF GuessInv, PastInv
      <4>3. CASE b = auNow
        <5>1. a \in Recent
          BY <4>3 DEF Recent
        <5>2. Before(a) \in Nat /\ auWrong'[b] = W + 1
          BY <5>1, <4>3, <3>2, <2>1, <1>f
        <5> QED
          <6>1. (W + 1) - Before(a) + G - (U + 1) <= Bound /\ U + 1 <= G
            BY <5>1, <3>1, <3>5, <1>c
          <6> QED
            BY <6>1, <5>2, <4>1, <1>e
      <4> QED
        BY <4>2, <4>3, <1>b, <1>d
    <3> QED
      BY <3>3, <3>4, <3>6, <3>7 DEF GuessInv
  <2> QED
    BY <2>2, <2>3
<1>10. ASSUME NEW t \in AuthThreads, RecordFailedLogin(t) PROVE GuessInv'
  <2>1. G' = G - 1 /\ U' = U - 1 /\ UNCHANGED <<auNow, auWrong>>
    <3>1. /\ SetThread(t, Thread("idle", 0, NoToken)) /\ auThread[t].pc = "record"
          /\ UNCHANGED <<auNow, auWrong>>
      BY <1>10 DEF RecordFailedLogin, Idle
    <3> QED
      BY <3>1, <1>a, CountsChange
  <2>2. /\ auAttempt'.last = auNow
        /\ auAttempt'.failures = IF auNow - auAttempt.last > Cooldown THEN 1
                                 ELSE auAttempt.failures + 1
    BY <1>10 DEF RecordFailedLogin
  <2>3. CountInv'
    <3> SUFFICES ASSUME NEW a \in Recent, W - Before(a) > U - 1
                 PROVE  auAttempt'.last >= a /\ auAttempt'.failures >= W - Before(a) - (U - 1)
      BY <2>1 DEF CountInv, Recent, Before
    <3>1. a \in Nat /\ a <= auNow /\ auNow - a < Cooldown /\ Before(a) \in Nat
      BY <1>f
    <3>2. CASE W - Before(a) > U
      <4>1. auAttempt.last >= a /\ auAttempt.failures >= W - Before(a) - U
        BY <3>2 DEF GuessInv, CountInv
      <4> QED
        BY <4>1, <3>1, <3>2, <2>2, <1>e
    <3>3. CASE ~(W - Before(a) > U)
      BY <3>3, <3>1, <2>2, <1>e
    <3> QED
      BY <3>2, <3>3
  <2>4. LimitInv'
    <3> SUFFICES ASSUME NEW a \in Recent PROVE W - Before(a) + (G - 1) - (U - 1) <= Bound
      BY <2>1 DEF LimitInv, Recent, Before
    <3> QED
      BY <1>e, <1>f DEF GuessInv, LimitInv
  <2> QED
    BY <2>1, <2>3, <2>4 DEF GuessInv, HistoryInv, PastInv, Before
<1>11. ASSUME NEW t \in AuthThreads, CreateSession(t) PROVE GuessInv'
  <2>1. /\ SetThread(t, Thread("idle", 0, NoToken)) /\ UNCHANGED <<auWrong, auNow, auAttempt>>
        /\ auThread[t].pc \notin {"verify", "record"}
    BY <1>11 DEF CreateSession, Idle
  <2> QED
    BY <2>1, <1>a, GuessOther
<1>12. ASSUME NEW t \in AuthThreads, RequestTouch(t) PROVE GuessInv'
  <2>1. /\ SetThread(t, Thread("idle", 0, NoToken)) /\ UNCHANGED <<auWrong, auNow, auAttempt>>
        /\ auThread[t].pc \notin {"verify", "record"}
    BY <1>12 DEF RequestTouch, Idle
  <2> QED
    BY <2>1, <1>a, GuessOther
<1>13. CASE ExpireSessions
  <2>1. UNCHANGED <<auWrong, auNow, Guessing, Uncounted>>
    BY <1>13 DEF ExpireSessions, Guessing, Uncounted
  <2>2. \/ UNCHANGED auAttempt
        \/ auNow - auAttempt.last > 10 * Cooldown
    BY <1>13 DEF ExpireSessions
  <2>3. CASE UNCHANGED auAttempt
    BY <2>1, <2>3, GuessStill
  <2>4. CASE auNow - auAttempt.last > 10 * Cooldown
    <3>1. \A a \in Recent : ~(W - Before(a) > U)
      <4> SUFFICES ASSUME NEW a \in Recent, W - Before(a) > U PROVE FALSE
        OBVIOUS
      <4>1. auAttempt.last >= a
        BY DEF GuessInv, CountInv
      <4> QED
        BY <4>1, <2>4, <1>e, <1>f
    <3> QED
      BY <2>1, <3>1 DEF GuessInv, HistoryInv, CountInv, LimitInv, PastInv, Recent, Before
  <2> QED
    BY <2>2, <2>3, <2>4
<1>14. CASE Tick
  <2>1. /\ UNCHANGED <<auWrong, auAttempt, Guessing, Uncounted>>
        /\ auNow < MaxTime /\ auNow' = auNow + 1
    BY <1>14 DEF Tick, Guessing, Uncounted
  <2>2. auNow' \in Times /\ W' = W /\ W' \in Nat /\ \A a \in Times : Before(a)' = Before(a)
    BY <2>1, <1>b, <1>d DEF GuessInv, HistoryInv, Before
  <2>3. Before(auNow') = W
    BY <2>1, <1>b, <1>d DEF Before
  <2>4. \A a \in Recent' : (a \in Recent \/ a = auNow') /\ a \in Times /\ Before(a) \in Nat
    BY SMTT(30), <2>1, <2>2, <1>b, <1>d DEF Recent
  <2>5. HistoryInv'
    BY <2>1, <2>2, <1>b, <1>d DEF GuessInv, HistoryInv
  <2>6. CountInv'
    <3>1. \A a \in Recent' : W - Before(a) > U =>
             auAttempt.last >= a /\ auAttempt.failures >= W - Before(a) - U
      <4>1. \A a \in Recent' : a = auNow' => ~(W - Before(a) > U)
        BY <2>3, <1>e
      <4>2. \A a \in Recent' : a \in Recent \/ a = auNow'
        BY <2>4
      <4> QED
        BY <4>1, <4>2 DEF GuessInv, CountInv
    <3>2. \A a \in Recent' : Before(a)' = Before(a)
      BY <2>2, <2>4
    <3> QED
      BY <2>1, <2>2, <3>1, <3>2 DEF CountInv
  <2>7. \A a \in Recent' : W - Before(a) + G - U <= Bound
    BY <2>2, <2>3, <2>4, <1>b, <1>d DEF GuessInv, LimitInv
  <2>8. LimitInv'
    BY <2>1, <2>2, <2>4, <2>7 DEF LimitInv
  <2>9. PastInv'
    <3> SUFFICES ASSUME NEW a \in Times, NEW b \in Times, a <= b, b <= auNow', b - a < Cooldown
                 PROVE  auWrong[b] - Before(a) <= Bound
      BY <2>1, <2>2 DEF PastInv
    <3>1. CASE b <= auNow
      BY <3>1 DEF GuessInv, PastInv
    <3>2. CASE b = auNow'
      <4>1. a \in Recent'
        BY <3>2 DEF Recent
      <4>2. auWrong[b] = W
        BY <3>2, <2>1, <2>2
      <4> QED
        BY <4>1, <4>2, <2>4, <2>7, <1>e
    <3> QED
      BY <3>1, <3>2, <2>1, <1>b, <1>d
  <2> QED
    BY <2>5, <2>6, <2>8, <2>9 DEF GuessInv
<1>15. CASE AuthRestart
  <2>1. auWrong' = [n \in Times |-> 0] /\ auNow' = auNow
    BY <1>15 DEF AuthRestart
  <2>2. Guessing' = {}
    BY <1>15 DEF AuthRestart, Guessing, Idle, Thread
  <2>3. G' = 0
    BY <2>2, FS_EmptySet
  <2> QED
    BY <2>1, <2>3, <1>b, <1>c, <1>d
       DEF GuessInv, HistoryInv, CountInv, LimitInv, PastInv, Recent, Before
<1>16. CASE UNCHANGED auVars
  BY <1>16, GuessStill DEF auVars, Guessing, Uncounted
<1> QED
  BY <1>1, <1>2, <1>3, <1>4, <1>5, <1>6, <1>7, <1>8, <1>9, <1>10, <1>11, <1>12, <1>13, <1>14,
     <1>15, <1>16 DEF AuthNext

\* In any stretch of Cooldown seconds a client learns of at most MaxFailures - 1 wrong passwords
\* and one more per thread, whatever the number of threads and their interleaving
\* (is_rate_limited, verify_device_password, record_failed_login).
THEOREM GuessesAreBounded == AuthSpec => []GuessesBounded
<1>1. AuthInv /\ GuessInv => GuessesBounded
  <2> SUFFICES ASSUME AuthTypeOK, GuessInv, NEW a \in Times, NEW b \in Times, a <= b,
                      b - a < Cooldown
               PROVE  auWrong[b] - Before(a) <= MaxFailures - 1 + Cardinality(AuthThreads)
    BY DEF AuthInv, GuessesBounded, WrongBetween, Before
  <2>1. auNow \in Times /\ auWrong \in [Times -> Nat] /\ Cardinality(AuthThreads) \in Nat
    BY CountsType, AuthNumbers
  <2>a. MaxFailures \in Nat \ {0} /\ MaxTime \in Nat /\ Cooldown \in Nat
    BY AuthAssumption
  <2>2. CASE b <= auNow
    BY <2>2 DEF GuessInv, PastInv
  <2>3. CASE b > auNow /\ a <= auNow
    <3>1. auWrong[b] = auWrong[auNow]
      BY <2>1, <2>3, <2>a DEF GuessInv, HistoryInv
    <3>2. auWrong[auNow] - Before(a) <= MaxFailures - 1 + Cardinality(AuthThreads)
      <4>1. auNow - a < Cooldown
        BY <2>1, <2>3, <2>a
      <4> QED
        BY <4>1, <2>1, <2>3, <2>a DEF GuessInv, PastInv
    <3> QED
      BY <3>1, <3>2
  <2>4. CASE a > auNow
    BY <2>1, <2>4, <2>a DEF GuessInv, HistoryInv, Before
  <2> QED
    BY <2>1, <2>2, <2>3, <2>4, <2>a
<1> QED
  BY <1>1, AuthInvInit, AuthInvNext, GuessInit, GuessNext, PTL DEF AuthSpec

-----------------------------------------------------------------------------
(* Mcp: the API key and the sessions *)

\* The key that the holder of the lock is about to install is the newest, and nothing else
\* knows it; a truncated file is empty until it is written.
HolderInv ==
    \/ mcHolder = Nobody
    \/ /\ mcHolder.does \in {"load", "regenerate", "writeload", "write"}
       /\ mcHolder.key = mcKeys /\ mcKeys > 0 /\ mcKeys \notin mcRevoked /\ mcKey # mcKeys
       /\ mcHolder.does \in {"load", "writeload"} => mcKey = 0
       /\ mcHolder.does \in {"regenerate", "write"} => mcKey # 0
       /\ mcHolder.does \in {"writeload", "write"} => mcFile = 0

\* No key is used that was not generated, and one that was replaced is in the file only if
\* the file could not be opened.
KeysInv ==
    /\ mcKey <= mcKeys /\ mcFile <= mcKeys /\ (\A k \in mcRevoked : k <= mcKeys)
    /\ mcFile \in mcRevoked => mcFile \in mcStuck

McpInv == McpTypeOK /\ HolderInv /\ KeysInv /\ RevokedStaysRevoked /\ KeyPersists
          /\ mcExpiry <= mcNow

USE McpAssumption DEF Nobody, Opens, mcKeyVars, mcSessionVars

LEMMA McpInvInit == McpInit => McpInv
  BY DEF McpInit, McpInv, McpTypeOK, HolderInv, KeysInv, RevokedStaysRevoked, KeyPersists

\* A step of the key keeps the types and the invariant.
LEMMA McpKeyNext ==
  ASSUME McpInv, LoadKey \/ RegenerateKey \/ OpenKeyFile \/ WriteKeyFile
  PROVE  McpInv'
<1> USE DEF McpInv, McpTypeOK, HolderInv, KeysInv, RevokedStaysRevoked, KeyPersists
<1>1. CASE LoadKey
  BY <1>1 DEF LoadKey
<1>2. CASE RegenerateKey
  BY <1>2 DEF RegenerateKey
<1>3. CASE OpenKeyFile
  BY <1>3 DEF OpenKeyFile, ReleaseKey
<1>4. CASE WriteKeyFile
  BY <1>4 DEF WriteKeyFile, ReleaseKey
<1> QED
  BY <1>1, <1>2, <1>3, <1>4

LEMMA McpInvNext == McpInv /\ [McpNext]_mcVars => McpInv'
<1> SUFFICES ASSUME McpInv, [McpNext]_mcVars PROVE McpInv'
  OBVIOUS
<1> USE DEF McpInv, McpTypeOK, HolderInv, KeysInv, RevokedStaysRevoked, KeyPersists
<1>1. CASE LoadKey \/ RegenerateKey \/ OpenKeyFile \/ WriteKeyFile
  BY <1>1, McpKeyNext
<1>2. CASE ExpireStart
  BY <1>2 DEF ExpireStart
<1>3. CASE CreateMcpSession
  BY <1>3 DEF CreateMcpSession
<1>4. ASSUME NEW s \in McpSessions, TouchSession(s) PROVE McpInv'
  BY <1>4 DEF TouchSession
<1>5. CASE McpTick
  BY <1>5 DEF McpTick
<1>6. CASE McpRestart
  BY <1>6 DEF McpRestart
<1>7. CASE UNCHANGED mcVars
  BY <1>7 DEF mcVars
<1> QED
  BY <1>1, <1>2, <1>3, <1>4, <1>5, <1>6, <1>7 DEF McpNext

\* A step that erases a session in use is a restart or finds it past the limit.
LEMMA SessionStep ==
  ASSUME McpInv, [McpNext]_mcVars, mcCrashes' = mcCrashes
  PROVE  \A s \in McpSessions :
            mcSession[s] >= 0 /\ mcSession'[s] < 0 => mcNow - mcSession[s] > SessionLimit
<1> USE DEF McpInv, McpTypeOK
<1>1. CASE mcSession' = mcSession
  BY <1>1
<1>2. CASE CreateMcpSession
  BY <1>2 DEF CreateMcpSession
<1>3. ASSUME NEW s \in McpSessions, TouchSession(s)
      PROVE  \A u \in McpSessions : mcSession[u] >= 0 => ~(mcSession'[u] < 0)
  <2>1. mcSession' = [mcSession EXCEPT ![s] = mcNow] /\ mcNow >= 0
    BY <1>3 DEF TouchSession
  <2> QED
    BY <2>1
<1>4. CASE McpRestart
  BY <1>4 DEF McpRestart
<1>5. CASE LoadKey \/ RegenerateKey \/ OpenKeyFile \/ WriteKeyFile \/ ExpireStart \/ McpTick
  BY <1>1, <1>5 DEF LoadKey, RegenerateKey, OpenKeyFile, WriteKeyFile, ExpireStart, McpTick
<1>6. CASE UNCHANGED mcVars
  BY <1>1, <1>6 DEF mcVars
<1> QED
  BY <1>2, <1>3, <1>4, <1>5, <1>6 DEF McpNext

\* Every reachable state has its type (mcp_server.cpp).
THEOREM McpTypeCorrect == McpSpec => []McpTypeOK
<1>1. McpInv => McpTypeOK
  BY DEF McpInv
<1> QED
  BY <1>1, McpInvInit, McpInvNext, PTL DEF McpSpec

\* The key in use survives a restart, a replaced key opens nothing again, and a session that
\* is used is not erased, for any number of keys, kills and failed writes
\* (load_or_create_api_key, regenerate_api_key, expire_old_sessions).
THEOREM CredentialsAreHeld == McpSpec => CredentialsHold
<1>1. McpInv => KeyPersists /\ RevokedStaysRevoked
  BY DEF McpInv
<1>2. McpInv /\ [McpNext]_mcVars =>
        [mcCrashes' = mcCrashes => \A s \in McpSessions :
          mcSession[s] >= 0 /\ mcSession'[s] < 0 => mcNow - mcSession[s] > SessionLimit]_mcVars
  BY SessionStep
<1> QED
  BY <1>1, <1>2, McpInvInit, McpInvNext, PTL DEF McpSpec, CredentialsHold, UsedSessionsKept

HIDE McpAssumption DEF Nobody, Opens, mcKeyVars, mcSessionVars, Times
=============================================================================
