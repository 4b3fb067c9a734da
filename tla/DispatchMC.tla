----------------------------- MODULE DispatchMC -----------------------------
(***************************************************************************)
(* Small instances of Dispatch: a public and a share request over a Codex  *)
(* and a Compass account, and two Anthropic requests over a Claude account *)
(* with a retry round and a Compass account.                               *)
(***************************************************************************)
EXTENDS Dispatch, TLC

CONSTANTS r1, r2, codex, claude, compass

PublicAndShare == r1 :> "public" @@ r2 :> "share"
OnePublic == r1 :> "public"
BothMessages == r1 :> "messages" @@ r2 :> "messages"

CodexAndCompass == codex :> "codex" @@ compass :> "compass"
ClaudeAndCompass == claude :> "claude" @@ compass :> "compass"

NoRetries == codex :> 0 @@ compass :> 0
Interchangeable == Permutations(Requests)

OneRetry == claude :> 1 @@ compass :> 0

=============================================================================
