-------------------------------- MODULE Auth --------------------------------
(***************************************************************************)
(* AuthManager: the device password, the sessions of the web interface,    *)
(* the limit on failed logins and device.json, as the threads of the HTTP  *)
(* server, the session_expiry thread and the auth tools use them.  Every   *)
(* method takes the lock on its own; a handler calls several.              *)
(***************************************************************************)
EXTENDS Integers, FiniteSets

CONSTANTS
    AuthThreads,   \* threads that serve requests
    Passwords,     \* the passwords people try, numbers from 1; 0 is no password
    Tokens,        \* session tokens generate_token will return, numbers from 1
    Timeouts,      \* values of session_timeout_seconds_
    MaxFailures,   \* MAX_FAILURES
    Cooldown,      \* COOLDOWN_SECONDS
    MaxTime,       \* bound on the clock
    MaxRequests,   \* bound on the requests served
    MaxRestarts,   \* bound on restarts of child_main
    MaxSaveErrors  \* bound on saves that fail

ASSUME AuthAssumption ==
    /\ Passwords \subseteq Nat \ {0} /\ Tokens \subseteq Nat \ {0}
    /\ Timeouts \subseteq Nat \ {0} /\ \E s \in Timeouts : \A u \in Timeouts : s >= u
    /\ MaxFailures \in Nat \ {0} /\ Cooldown \in Nat \ {0}
    /\ MaxTime \in Nat /\ MaxRequests \in Nat /\ MaxRestarts \in Nat /\ MaxSaveErrors \in Nat
    /\ IsFiniteSet(AuthThreads)

VARIABLES
    auMem,       \* password_hash_, setup_complete_, session_timeout_seconds_
    auFile,      \* device.json: the same, or corrupted
    auSession,   \* last_seen of each token; Unused, or Gone when erased
    auAttempt,   \* login_attempts_ of the address: failures and last_failure
    auThread,    \* what each thread is doing
    auNow,
    auWrong,     \* passwords found wrong up to each moment, since the start (history)
    auLoggedOut, \* tokens whose owner has logged out (history)
    auUnsaved,   \* 1 after a save that failed (history)
    auRequests, auRestarts, auSaveErrors

auVars == <<auMem, auFile, auSession, auAttempt, auThread, auNow, auWrong, auLoggedOut,
            auUnsaved, auRequests, auRestarts, auSaveErrors>>

Times == 0..MaxTime
Unused == -1
Gone == -2
DefaultTimeout == CHOOSE s \in Timeouts : \A u \in Timeouts : s >= u
Blank == [hash |-> 0, setup |-> 0, timeout |-> DefaultTimeout]
Corrupt == [hash |-> 0, setup |-> 2, timeout |-> DefaultTimeout]

Thread(pc, pw, token) == [pc |-> pc, pw |-> pw, token |-> token]
NoToken == 0
Idle == Thread("idle", 0, NoToken)
SetThread(t, th) == auThread' = [auThread EXCEPT ![t] = th]

\* A thread takes a request.
Accept(t) == /\ auThread[t] = Idle /\ auRequests < MaxRequests
             /\ auRequests' = auRequests + 1

\* is_rate_limited; the clock of a fresh record lies far back.
RateLimited ==
    auAttempt.failures >= MaxFailures /\ auNow - auAttempt.last < Cooldown

\* is_valid_session
ValidSession(s) == auSession[s] >= 0 /\ auNow - auSession[s] < auMem.timeout

-----------------------------------------------------------------------------
(* Set-up and login. *)

\* /llamaste/auth/setup looks whether a password is set, and hashes for 250 ms.
SetupTest(t, p) ==
    /\ Accept(t) /\ auMem.setup = 0
    /\ SetThread(t, Thread("setup", p, NoToken))
    /\ UNCHANGED <<auMem, auFile, auSession, auAttempt, auNow, auWrong, auLoggedOut,
                   auUnsaved, auRestarts, auSaveErrors>>

\* auth.change_password verifies the current password; sessions are kept.
ChangeVerify(t, current, p) ==
    /\ Accept(t) /\ auMem.hash = current
    /\ SetThread(t, Thread("change", p, NoToken))
    /\ UNCHANGED <<auMem, auFile, auSession, auAttempt, auNow, auWrong, auLoggedOut,
                   auUnsaved, auRestarts, auSaveErrors>>

\* set_device_password stores the hash under the lock, before it saves.
StorePassword(t) ==
    /\ auThread[t].pc \in {"setup", "change"}
    /\ auMem' = [auMem EXCEPT !.hash = auThread[t].pw, !.setup = 1]
    /\ SetThread(t, Thread(IF auThread[t].pc = "setup" THEN "savesetup" ELSE "save", 0, NoToken))
    /\ UNCHANGED <<auFile, auSession, auAttempt, auNow, auWrong, auLoggedOut, auUnsaved,
                   auRestarts, auSaveErrors, auRequests>>

\* set_session_timeout, called by the tool.
SetSessionTimeout(t, s) ==
    /\ Accept(t) /\ s # auMem.timeout
    /\ auMem' = [auMem EXCEPT !.timeout = s]
    /\ SetThread(t, Thread("save", 0, NoToken))
    /\ UNCHANGED <<auFile, auSession, auAttempt, auNow, auWrong, auLoggedOut, auUnsaved,
                   auRestarts, auSaveErrors>>

SavedThread(t) == IF auThread[t].pc = "savesetup" THEN Thread("create", 0, NoToken) ELSE Idle

\* Mutant of SaveConfig: the timeout is not written.
SaveConfig_TimeoutForgotten(t) ==
    /\ auThread[t].pc \in {"save", "savesetup"}
    /\ auFile' = [auMem EXCEPT !.timeout = auFile.timeout] /\ auUnsaved' = 0
    /\ SetThread(t, SavedThread(t))
    /\ UNCHANGED <<auMem, auSession, auAttempt, auNow, auWrong, auLoggedOut, auRestarts, auRequests,
                   auSaveErrors>>

\* save_config takes the lock again and writes what is in memory now; a temporary file
\* that cannot be opened leaves the old one, a full disk replaces it by a torn one.
SaveConfig(t) ==
    /\ auThread[t].pc \in {"save", "savesetup"}
    /\ \/ auFile' = auMem /\ auUnsaved' = 0 /\ UNCHANGED auSaveErrors
       \/ /\ auSaveErrors < MaxSaveErrors /\ auSaveErrors' = auSaveErrors + 1
          /\ auFile' \in {auFile, Corrupt}
          /\ auUnsaved' = 1
    /\ SetThread(t, SavedThread(t))
    /\ UNCHANGED <<auMem, auSession, auAttempt, auNow, auWrong, auLoggedOut, auRestarts, auRequests>>

\* Mutant of LoginCheck: is_rate_limited is not asked.
LoginCheck_NoLimit(t, p) ==
    /\ Accept(t)
    /\ SetThread(t, Thread("verify", p, NoToken))
    /\ UNCHANGED <<auMem, auFile, auSession, auAttempt, auNow, auWrong, auLoggedOut,
                   auUnsaved, auRestarts, auSaveErrors>>

\* /llamaste/auth/login is refused at once while the address is locked out.
LoginCheck(t, p) ==
    /\ Accept(t) /\ ~RateLimited
    /\ SetThread(t, Thread("verify", p, NoToken))
    /\ UNCHANGED <<auMem, auFile, auSession, auAttempt, auNow, auWrong, auLoggedOut,
                   auUnsaved, auRestarts, auSaveErrors>>

LoginVerify(t) ==
    LET right == auThread[t].pw = auMem.hash IN
    /\ auThread[t].pc = "verify"
    /\ SetThread(t, Thread(IF right THEN "create" ELSE "record", 0, NoToken))
    /\ auWrong' = IF right THEN auWrong ELSE [n \in Times |->
                                               IF n < auNow THEN auWrong[n] ELSE auWrong[n] + 1]
    /\ UNCHANGED <<auMem, auFile, auSession, auAttempt, auNow, auLoggedOut, auUnsaved,
                   auRestarts, auSaveErrors, auRequests>>

\* record_failed_login: the count starts anew when the last failure is long ago.
RecordFailedLogin(t) ==
    /\ auThread[t].pc = "record"
    /\ auAttempt' = [failures |-> IF auNow - auAttempt.last > Cooldown THEN 1
                                  ELSE auAttempt.failures + 1,
                     last |-> auNow]
    /\ SetThread(t, Idle)
    /\ UNCHANGED <<auMem, auFile, auSession, auNow, auWrong, auLoggedOut, auUnsaved,
                   auRestarts, auSaveErrors, auRequests>>

CreateSession(t) ==
    /\ auThread[t].pc = "create"
    /\ \E s \in Tokens :
          /\ auSession[s] = Unused
          /\ auSession' = [auSession EXCEPT ![s] = auNow]
    /\ SetThread(t, Idle)
    /\ UNCHANGED <<auMem, auFile, auAttempt, auNow, auWrong, auLoggedOut, auUnsaved,
                   auRestarts, auSaveErrors, auRequests>>

-----------------------------------------------------------------------------
(* Requests, logout, expiry. *)

\* is_authenticated: the first of two holds of the lock.
RequestCheck(t, s) ==
    /\ Accept(t) /\ auMem.setup = 1 /\ ValidSession(s)
    /\ SetThread(t, Thread("touch", 0, s))
    /\ UNCHANGED <<auMem, auFile, auSession, auAttempt, auNow, auWrong, auLoggedOut,
                   auUnsaved, auRestarts, auSaveErrors>>

\* Mutant of RequestTouch: sessions_[token] is assigned without a find.
RequestTouch_Inserts(t) ==
    LET s == auThread[t].token IN
    /\ auThread[t].pc = "touch"
    /\ auSession' = [auSession EXCEPT ![s] = auNow]
    /\ SetThread(t, Idle)
    /\ UNCHANGED <<auMem, auFile, auAttempt, auNow, auWrong, auLoggedOut, auUnsaved,
                   auRestarts, auSaveErrors, auRequests>>

\* touch_session: the session may have gone in between.
RequestTouch(t) ==
    LET s == auThread[t].token IN
    /\ auThread[t].pc = "touch"
    /\ auSession' = IF auSession[s] >= 0 THEN [auSession EXCEPT ![s] = auNow] ELSE auSession
    /\ SetThread(t, Idle)
    /\ UNCHANGED <<auMem, auFile, auAttempt, auNow, auWrong, auLoggedOut, auUnsaved,
                   auRestarts, auSaveErrors, auRequests>>

Logout(t, s) ==
    /\ Accept(t) /\ auSession[s] # Unused /\ s \notin auLoggedOut
    /\ auSession' = [auSession EXCEPT ![s] = Gone]
    /\ auLoggedOut' = auLoggedOut \union {s}
    /\ UNCHANGED <<auMem, auFile, auAttempt, auThread, auNow, auWrong, auUnsaved, auRestarts,
                   auSaveErrors>>

\* expire_sessions, every minute.
ExpireSessions ==
    LET Old(s) == auSession[s] >= 0 /\ auNow - auSession[s] >= auMem.timeout
        stale == auAttempt.failures > 0 /\ auNow - auAttempt.last > 10 * Cooldown IN
    /\ stale \/ \E s \in Tokens : Old(s)
    /\ auSession' = [s \in Tokens |-> IF Old(s) THEN Gone ELSE auSession[s]]
    /\ auAttempt' = IF stale THEN [failures |-> 0, last |-> auAttempt.last] ELSE auAttempt
    /\ UNCHANGED <<auMem, auFile, auThread, auNow, auWrong, auLoggedOut, auUnsaved,
                   auRestarts, auSaveErrors, auRequests>>

Tick ==
    /\ auNow < MaxTime
    /\ auNow' = auNow + 1
    /\ UNCHANGED <<auMem, auFile, auSession, auAttempt, auThread, auWrong, auLoggedOut,
                   auUnsaved, auRestarts, auSaveErrors, auRequests>>

\* child_main starts again: load_config reads the file, and a corrupted one is a first boot.
AuthRestart ==
    /\ auRestarts < MaxRestarts
    /\ auRestarts' = auRestarts + 1
    /\ auMem' = IF auFile = Corrupt THEN Blank ELSE auFile
    /\ auSession' = [s \in Tokens |-> IF auSession[s] = Unused THEN Unused ELSE Gone]
    /\ auAttempt' = [failures |-> 0, last |-> 0]
    /\ auThread' = [t \in AuthThreads |-> Idle]
    /\ auWrong' = [n \in Times |-> 0]
    /\ UNCHANGED <<auFile, auNow, auLoggedOut, auUnsaved, auRequests, auSaveErrors>>

-----------------------------------------------------------------------------
AuthInit ==
    /\ auMem = Blank /\ auFile = Blank
    /\ auSession = [s \in Tokens |-> Unused]
    /\ auAttempt = [failures |-> 0, last |-> 0]
    /\ auThread = [t \in AuthThreads |-> Idle]
    /\ auNow = 0 /\ auWrong = [n \in Times |-> 0]
    /\ auLoggedOut = {} /\ auUnsaved = 0 /\ auRequests = 0 /\ auRestarts = 0 /\ auSaveErrors = 0

AuthNext ==
    \/ \E t \in AuthThreads :
          \/ \E p \in Passwords : SetupTest(t, p) \/ LoginCheck(t, p)
          \/ \E c, p \in Passwords : ChangeVerify(t, c, p)
          \/ \E s \in Timeouts : SetSessionTimeout(t, s)
          \/ \E s \in Tokens : RequestCheck(t, s) \/ Logout(t, s)
          \/ StorePassword(t) \/ SaveConfig(t) \/ LoginVerify(t) \/ RecordFailedLogin(t)
          \/ CreateSession(t) \/ RequestTouch(t)
    \/ ExpireSessions \/ Tick \/ AuthRestart

AuthSpec == AuthInit /\ [][AuthNext]_auVars

\* The type of the state; a torn device.json never reaches memory (load_config).
AuthTypeOK ==
    /\ auMem \in [hash: Passwords \union {0}, setup: {0, 1}, timeout: Timeouts]
    /\ auFile \in [hash: Passwords \union {0}, setup: {0, 1, 2}, timeout: Timeouts]
    /\ auSession \in [Tokens -> Times \union {Unused, Gone}]
    /\ auAttempt \in [failures: Nat, last: Times]
    /\ auThread \in [AuthThreads ->
          [pc: {"idle", "setup", "change", "save", "savesetup", "create", "verify", "record",
                "touch"},
           pw: Passwords \union {0}, token: Tokens \union {NoToken}]]
    /\ auNow \in Times /\ auWrong \in [Times -> Nat]
    /\ auLoggedOut \subseteq Tokens /\ auUnsaved \in {0, 1}
    /\ auRequests \in 0..MaxRequests /\ auRestarts \in 0..MaxRestarts
    /\ auSaveErrors \in 0..MaxSaveErrors

\* In any stretch of Cooldown seconds a client is told at most MaxFailures - 1 times that a
\* password is wrong, and once more for each thread of the server: the check of the limit,
\* the check of the password and the count are three holds of the lock, with a slow hash
\* in between.
WrongBetween(a, b) == auWrong[b] - (IF a = 0 THEN 0 ELSE auWrong[a - 1])
GuessesBounded ==
    \A a, b \in Times : a <= b /\ b - a < Cooldown =>
        WrongBetween(a, b) <= MaxFailures - 1 + Cardinality(AuthThreads)

\* A session that was ended by logout is never found valid again, whatever requests were
\* being checked at that moment (touch_session), and whatever the timeout is set to.
LogoutIsFinal == \A s \in auLoggedOut : auSession[s] = Gone

\* When nobody is about to save, device.json holds the password, the set-up flag and the
\* timeout in use unless the last save failed: two changes at once cannot leave the older
\* one on disk, and what was answered survives a restart (set_device_password, save_config).
FileMatchesMemory ==
    \/ auUnsaved = 1
    \/ \E t \in AuthThreads : auThread[t].pc \in {"save", "savesetup"}
    \/ auFile = auMem

\* What a user was told stays true: who logged out stays out, and the password and timeout
\* that were set are those of the next start (auth.cpp, the routes that call it).
AnswersStayTrue == LogoutIsFinal /\ FileMatchesMemory
=============================================================================
