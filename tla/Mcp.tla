-------------------------------- MODULE Mcp ---------------------------------
(***************************************************************************)
(* The MCP server: the API key that opens it, which lives in memory and in *)
(* mcp_key.txt, and the sessions its clients open.  The key file is opened *)
(* for writing in place, with the lock of the key held; child_main may be  *)
(* killed at any moment and starts again from the file.                    *)
(***************************************************************************)
EXTENDS Integers, FiniteSets

CONSTANTS
    MaxKeys,        \* bound on the keys generated
    McpSessions,    \* session ids gen_random_hex will return
    SessionLimit,   \* minutes a session lives without use
    McpEnd,         \* bound on the clock, in minutes
    MaxMcpCrashes,  \* bound on restarts of child_main
    MaxKeyErrors    \* bound on writes of the key file that fail

ASSUME McpAssumption ==
    /\ MaxKeys \in Nat \ {0} /\ SessionLimit \in Nat /\ McpEnd \in Nat
    /\ MaxMcpCrashes \in Nat /\ MaxKeyErrors \in Nat

VARIABLES
    mcKey,        \* api_key_, 0 when empty
    mcFile,       \* the key in mcp_key.txt, 0 when there is no valid one
    mcHolder,     \* what the holder of api_key_mu_ is about to do, and with which key
    mcKeys,       \* keys generated so far
    mcRevoked,    \* keys that a finished regenerate_api_key has replaced (history)
    mcStuck,      \* keys that stayed in the file because it could not be opened (history)
    mcUnsaved,    \* 1 after a write of the file that failed (history)
    mcSession,    \* last_access of each session; -1 unused, -2 erased
    mcExpiry,     \* the time expire_old_sessions has read, -1 when it is not running
    mcNow, mcCrashes, mcErrors

mcVars == <<mcKey, mcFile, mcHolder, mcKeys, mcRevoked, mcStuck, mcUnsaved, mcSession,
            mcExpiry, mcNow, mcCrashes, mcErrors>>
mcKeyVars == <<mcKey, mcFile, mcHolder, mcKeys, mcRevoked, mcStuck, mcUnsaved, mcErrors>>
mcSessionVars == <<mcSession, mcExpiry>>

Nobody == [does |-> "nothing", key |-> 0]
Opens == {"load", "regenerate"}

-----------------------------------------------------------------------------
(* The key. *)

\* load_or_create_api_key, when the routes are added: a valid key in the file is taken,
\* else a new one is generated.
LoadKey ==
    /\ mcKey = 0 /\ mcHolder = Nobody
    /\ \/ mcFile # 0 /\ mcKey' = mcFile /\ UNCHANGED <<mcHolder, mcKeys>>
       \/ /\ mcFile = 0 /\ mcKeys < MaxKeys
          /\ mcKeys' = mcKeys + 1
          /\ mcHolder' = [does |-> "load", key |-> mcKeys + 1]
          /\ UNCHANGED mcKey
    /\ UNCHANGED <<mcFile, mcRevoked, mcStuck, mcUnsaved, mcErrors, mcSessionVars, mcNow,
                   mcCrashes>>

\* Mutant of RegenerateKey: the file is not written.
RegenerateKey_MemoryOnly ==
    /\ mcKey # 0 /\ mcHolder = Nobody /\ mcKeys < MaxKeys
    /\ mcKeys' = mcKeys + 1
    /\ mcKey' = mcKeys + 1 /\ mcRevoked' = mcRevoked \union {mcKey}
    /\ UNCHANGED <<mcFile, mcHolder, mcStuck, mcUnsaved, mcErrors, mcSessionVars, mcNow, mcCrashes>>

\* regenerate_api_key changes the key in memory and then the file.  Every reader of the key
\* waits for the lock, so mcKey changes at its release.
RegenerateKey ==
    /\ mcKey # 0 /\ mcHolder = Nobody /\ mcKeys < MaxKeys
    /\ mcKeys' = mcKeys + 1
    /\ mcHolder' = [does |-> "regenerate", key |-> mcKeys + 1]
    /\ UNCHANGED <<mcKey, mcFile, mcRevoked, mcStuck, mcUnsaved, mcErrors, mcSessionVars,
                   mcNow, mcCrashes>>

\* The end of both: the new key is in memory and the lock is free.
ReleaseKey ==
    /\ mcKey' = mcHolder.key
    /\ mcHolder' = Nobody
    /\ mcRevoked' = IF mcHolder.does \in {"load", "writeload"} THEN mcRevoked
                    ELSE mcRevoked \union {mcKey}

\* std::ofstream truncates the file, or cannot be opened; then only a warning is logged.
OpenKeyFile ==
    /\ mcHolder.does \in Opens
    /\ \/ /\ mcFile' = 0
          /\ mcHolder' = [mcHolder EXCEPT !.does = IF @ = "load" THEN "writeload" ELSE "write"]
          /\ UNCHANGED <<mcKey, mcRevoked, mcStuck, mcUnsaved, mcErrors>>
       \/ /\ mcErrors < MaxKeyErrors /\ mcErrors' = mcErrors + 1
          /\ mcUnsaved' = 1 /\ mcStuck' = mcStuck \union {mcFile}
          /\ ReleaseKey
          /\ UNCHANGED mcFile
    /\ UNCHANGED <<mcKeys, mcSessionVars, mcNow, mcCrashes>>

\* Mutant of WriteKeyFile: the file is opened and left empty.
WriteKeyFile_Skipped ==
    /\ mcHolder.does \in {"writeload", "write"}
    /\ ReleaseKey
    /\ UNCHANGED <<mcFile, mcKeys, mcStuck, mcUnsaved, mcErrors, mcSessionVars, mcNow, mcCrashes>>

\* The key is written and flushed; a full disk is not noticed.
WriteKeyFile ==
    /\ mcHolder.does \in {"writeload", "write"}
    /\ \/ mcFile' = mcHolder.key /\ mcUnsaved' = 0 /\ UNCHANGED mcErrors
       \/ /\ mcErrors < MaxKeyErrors /\ mcErrors' = mcErrors + 1
          /\ mcUnsaved' = 1 /\ UNCHANGED mcFile
    /\ ReleaseKey
    /\ UNCHANGED <<mcKeys, mcStuck, mcSessionVars, mcNow, mcCrashes>>

-----------------------------------------------------------------------------
(* Sessions. *)

\* handle_post with a session id.
TouchSession(s) ==
    /\ mcSession[s] >= 0
    /\ mcSession' = [mcSession EXCEPT ![s] = mcNow]
    /\ UNCHANGED <<mcKeyVars, mcExpiry, mcNow, mcCrashes>>

\* create_session, called by initialize: expire_old_sessions reads the clock ...
ExpireStart ==
    /\ mcExpiry = -1 /\ \E s \in McpSessions : mcSession[s] = -1
    /\ mcExpiry' = mcNow
    /\ UNCHANGED <<mcKeyVars, mcSession, mcNow, mcCrashes>>

\* Mutant of CreateMcpSession: every session not used just now is erased.
CreateMcpSession_NoLimit ==
    /\ mcExpiry # -1
    /\ \E s \in McpSessions :
          /\ mcSession[s] = -1
          /\ mcSession' = [u \in McpSessions |->
                IF u = s THEN mcNow
                ELSE IF mcSession[u] >= 0 /\ mcExpiry > mcSession[u] THEN -2 ELSE mcSession[u]]
    /\ mcExpiry' = -1
    /\ UNCHANGED <<mcKeyVars, mcNow, mcCrashes>>

\* ... and then waits for the lock: sessions may have been used in between.
CreateMcpSession ==
    /\ mcExpiry # -1
    /\ \E s \in McpSessions :
          /\ mcSession[s] = -1
          /\ mcSession' = [u \in McpSessions |->
                IF u = s THEN mcNow
                ELSE IF mcSession[u] >= 0 /\ mcExpiry - mcSession[u] > SessionLimit
                THEN -2 ELSE mcSession[u]]
    /\ mcExpiry' = -1
    /\ UNCHANGED <<mcKeyVars, mcNow, mcCrashes>>

McpTick ==
    /\ mcNow < McpEnd
    /\ mcNow' = mcNow + 1
    /\ UNCHANGED <<mcKeyVars, mcSessionVars, mcCrashes>>

\* child_main is killed, perhaps with the file half written, and starts again.
McpRestart ==
    /\ mcCrashes < MaxMcpCrashes /\ mcCrashes' = mcCrashes + 1
    /\ mcKey' = 0 /\ mcHolder' = Nobody
    /\ mcSession' = [s \in McpSessions |-> IF mcSession[s] = -1 THEN -1 ELSE -2]
    /\ mcExpiry' = -1
    /\ UNCHANGED <<mcFile, mcKeys, mcRevoked, mcStuck, mcUnsaved, mcErrors, mcNow>>

-----------------------------------------------------------------------------
McpInit ==
    /\ mcKey = 0 /\ mcFile = 0 /\ mcHolder = Nobody /\ mcKeys = 0
    /\ mcRevoked = {} /\ mcStuck = {} /\ mcUnsaved = 0
    /\ mcSession = [s \in McpSessions |-> -1] /\ mcExpiry = -1
    /\ mcNow = 0 /\ mcCrashes = 0 /\ mcErrors = 0

McpNext ==
    \/ LoadKey \/ RegenerateKey \/ OpenKeyFile \/ WriteKeyFile
    \/ ExpireStart \/ CreateMcpSession \/ (\E s \in McpSessions : TouchSession(s))
    \/ McpTick \/ McpRestart

McpSpec == McpInit /\ [][McpNext]_mcVars

\* The type of the state; no key is made before the first was loaded (regenerate_api_key).
McpTypeOK ==
    /\ mcKey \in 0..MaxKeys /\ mcFile \in 0..MaxKeys /\ mcKeys \in 0..MaxKeys
    /\ mcHolder \in [does: {"nothing", "load", "regenerate", "writeload", "write"},
                     key: 0..MaxKeys]
    /\ mcRevoked \subseteq 1..MaxKeys /\ mcStuck \subseteq 0..MaxKeys /\ mcUnsaved \in {0, 1}
    /\ mcSession \in [McpSessions -> -2..McpEnd] /\ mcExpiry \in -1..McpEnd
    /\ mcNow \in 0..McpEnd /\ mcCrashes \in 0..MaxMcpCrashes /\ mcErrors \in 0..MaxKeyErrors

\* A key that was replaced opens nothing any more, also after child_main was killed during
\* or after the replacement and has read the file again; except one that stayed in the file
\* because it could not be opened for writing (regenerate_api_key, load_or_create_api_key).
RevokedStaysRevoked == mcKey \in mcRevoked => mcKey \in mcStuck

\* The key in use is the one the next start will read, unless the last write of the file
\* failed: "persists across reboots" (mcp_server.h), whichever of a first start and a
\* replacement child_main was killed in.
KeyPersists == mcKey # 0 /\ mcHolder = Nobody /\ mcUnsaved = 0 => mcFile = mcKey

\* A session that has been used within the limit is not erased, although the clock is read
\* before the lock is taken and clients use their sessions meanwhile (expire_old_sessions).
UsedSessionsKept ==
    [][mcCrashes' = mcCrashes => \A s \in McpSessions :
          mcSession[s] >= 0 /\ mcSession'[s] < 0 => mcNow - mcSession[s] > SessionLimit]_mcVars

\* What opens the MCP server stays valid for as long as it should and no longer: the key in
\* use, the keys it has replaced, and the sessions of clients (mcp_server.cpp).
CredentialsHold ==
    /\ [](KeyPersists /\ RevokedStaysRevoked)
    /\ UsedSessionsKept
=============================================================================
