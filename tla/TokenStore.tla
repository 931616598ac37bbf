----------------------------- MODULE TokenStore -----------------------------
(***************************************************************************)
(* The OAuth tokens of a SpareBank1 provider (sparebank1/auth.py, kept on  *)
(* disk by state.py's JsonStateStore).  Sync cycles and requests of the    *)
(* web page share one event loop and one token file: each reads the file,  *)
(* may wait for the bank to trade an expired token's refresh token for a   *)
(* new one, and then overwrites the file.  scripts/auth_setup.py, a process*)
(* of its own, writes the same file after an interactive login.            *)
(*                                                                         *)
(* A token is the number of the grant that issued it and stands for access *)
(* and refresh token alike.  The bank is external: it takes a refresh token*)
(* once.  Whether a new login ends earlier sessions is not known from the  *)
(* code: LoginMayRevoke allows both.                                       *)
(***************************************************************************)
EXTENDS Naturals

CONSTANTS
  Caller,       (* tasks that need an access token: a cycle, web requests  *)
  MaxGrants,    (* bound: how many tokens the bank ever issues             *)
  LoginMayRevoke(* may a login at the bank end the sessions before it?     *)

ASSUME TokenAssumption == MaxGrants \in Nat /\ LoginMayRevoke \in BOOLEAN

Token == 1..MaxGrants
NoToken == 0

VARIABLES
  issued,  (* number of tokens the bank has issued                         *)
  live,    (* refresh tokens the bank still takes                          *)
  aged,    (* tokens whose access token is expired or about to             *)
  disk,    (* the token in state/tokens/<provider>.json                    *)
  legacy,  (* the token in state/tokens.json, the layout before that       *)
  up,      (* is the service running?                                      *)
  call,    (* each caller: where it is, the token it read, the one it got  *)
  login,   (* the token auth_setup.py is about to write                    *)
  burnt,   (* tokens traded for one that never reached the disk            *)
  revoked, (* tokens ended by a later login                                *)
  overtaken(* callers whose token was traded or replaced while they waited *)

bankSide == <<issued, live, revoked>>
files == <<disk, legacy>>
vars == <<issued, live, aged, disk, legacy, up, call, login, burnt, revoked,
          overtaken>>

Steps == {"idle", "asking", "granted", "rejected"}
Idle == [at |-> "idle", read |-> NoToken, got |-> NoToken]

(* An installation of before the providers section has a legacy file.      *)
Init ==
  /\ issued \in {0, 1} /\ issued <= MaxGrants
  /\ live = 1..issued
  /\ aged = {} /\ burnt = {} /\ revoked = {}
  /\ disk = NoToken /\ legacy = issued
  /\ up = FALSE
  /\ call = [c \in Caller |-> Idle]
  /\ login = NoToken /\ overtaken = {}

-----------------------------------------------------------------------------
(* Mutated forms, each a plausible bug in the definition it is named after.*)

(* The new tokens are handed out and never written.                        *)
Written_Forgotten(c) == disk

(* What was sent is written, not what came back.                           *)
Written_Sent(c) == call[c].read

-----------------------------------------------------------------------------
(* token_store_path, at the start of the service and of auth_setup.py.     *)
Migrates == disk = NoToken /\ legacy # NoToken

MoveLegacy ==
  /\ disk' = IF Migrates THEN legacy ELSE disk
  /\ legacy' = IF Migrates THEN NoToken ELSE legacy

StartService ==
  /\ ~up /\ up' = TRUE
  /\ MoveLegacy
  /\ UNCHANGED <<bankSide, aged, call, login, burnt, overtaken>>

-----------------------------------------------------------------------------
(* ensure_valid_access_token.                                              *)

ReadFile(c) == disk
Fresh(k) == k # NoToken /\ k \notin aged

(* The one who was granted the successor of k and has yet to write it.     *)
Renewing(k) == \E c \in Caller : call[c].at = "granted" /\ call[c].read = k

(* No tokens at all: AuthRequiredError, nothing changes.  A fresh access   *)
(* token is handed out as it is.  Otherwise the refresh token just read is *)
(* sent to the bank.                                                       *)
AskForToken(c) ==
  /\ up /\ call[c].at = "idle"
  /\ LET k == ReadFile(c) IN
       /\ k # NoToken /\ ~Fresh(k)
       /\ call' = [call EXCEPT ![c] = [at |-> "asking", read |-> k, got |-> NoToken]]
       /\ overtaken' = IF Renewing(k) THEN overtaken \cup {c} ELSE overtaken \ {c}
  /\ UNCHANGED <<bankSide, aged, files, up, login, burnt>>

Waiting == {c \in Caller : call[c].at # "idle"}

(* The bank takes a refresh token once, and answers 400 to any other.      *)
BankGrants(c) ==
  /\ call[c].at = "asking" /\ call[c].read \in live
  /\ issued < MaxGrants
  /\ issued' = issued + 1
  /\ live' = (live \ {call[c].read}) \cup {issued'}
  /\ call' = [call EXCEPT ![c].at = "granted", ![c].got = issued']
  /\ overtaken' = overtaken \cup {d \in Waiting : d # c /\ call[d].read = call[c].read}
  /\ UNCHANGED <<aged, files, up, login, burnt, revoked>>

BankRejects(c) ==
  /\ call[c].at = "asking" /\ call[c].read \notin live
  /\ call' = [call EXCEPT ![c].at = "rejected"]
  /\ UNCHANGED <<bankSide, aged, files, up, login, burnt, overtaken>>

(* The answer arrives and is saved before anything else runs in the loop:  *)
(* temporary file, fsync, rename over the old file.                        *)
Written(c) == call[c].got

Save(c) ==
  /\ call[c].at = "granted"
  /\ disk' = Written(c)
  /\ call' = [call EXCEPT ![c].at = "idle"]
  /\ overtaken' = overtaken \cup {d \in Waiting : d # c /\ call[d].read # Written(c)}
  /\ UNCHANGED <<bankSide, aged, legacy, up, login, burnt>>

RaiseAuthRequired(c) ==
  /\ call[c].at = "rejected"
  /\ call' = [call EXCEPT ![c].at = "idle"]
  /\ UNCHANGED <<bankSide, aged, files, up, login, burnt, overtaken>>

(* No answer (a timeout, a 5xx status) or a write that fails, which leaves *)
(* the old file in place: what the bank granted is lost.                   *)
CallFails(c) ==
  /\ call[c].at \in {"asking", "granted"}
  /\ burnt' = burnt \cup {k \in {call[c].read} : call[c].at = "granted"}
  /\ call' = [call EXCEPT ![c].at = "idle"]
  /\ UNCHANGED <<bankSide, aged, files, up, login, overtaken>>

Crash ==
  /\ up /\ up' = FALSE
  /\ burnt' = burnt \cup {call[c].read : c \in {d \in Caller : call[d].at = "granted"}}
  /\ call' = [c \in Caller |-> Idle]
  /\ UNCHANGED <<bankSide, aged, files, login, overtaken>>

-----------------------------------------------------------------------------
(* scripts/auth_setup.py: main up to exchange_code, then its write.  The   *)
(* script may die in between.                                              *)
Login ==
  /\ login = NoToken /\ issued < MaxGrants
  /\ MoveLegacy
  /\ issued' = issued + 1
  /\ \/ revoked' = revoked
     \/ LoginMayRevoke /\ revoked' = revoked \cup live
  /\ live' = (live \ revoked') \cup {issued'}
  /\ login' = issued'
  /\ UNCHANGED <<aged, up, call, burnt, overtaken>>

WriteLogin ==
  /\ login # NoToken
  /\ disk' = login /\ login' = NoToken
  /\ overtaken' = overtaken \cup Waiting
  /\ UNCHANGED <<bankSide, aged, legacy, up, call, burnt>>

AbandonLogin ==
  /\ login # NoToken /\ login' = NoToken
  /\ UNCHANGED <<bankSide, aged, files, up, call, burnt, overtaken>>

-----------------------------------------------------------------------------
(* Nine minutes less one: an access token ages.                            *)
Age(k) ==
  /\ k \in 1..issued /\ k \notin aged
  /\ aged' = aged \cup {k}
  /\ UNCHANGED <<bankSide, files, up, call, login, burnt, overtaken>>

Next ==
  \/ StartService \/ Crash \/ Login \/ WriteLogin \/ AbandonLogin
  \/ \E k \in Token : Age(k)
  \/ \E c \in Caller : \/ AskForToken(c) \/ BankGrants(c) \/ BankRejects(c)
                       \/ Save(c) \/ RaiseAuthRequired(c) \/ CallFails(c)

Spec == Init /\ [][Next]_vars

-----------------------------------------------------------------------------
(* Properties.                                                             *)

TypeOK ==
  /\ issued \in Token \cup {0}
  /\ live \subseteq Token /\ aged \subseteq Token /\ burnt \subseteq Token
  /\ revoked \subseteq Token
  /\ disk \in Token \cup {NoToken} /\ legacy \in Token \cup {NoToken}
  /\ login \in Token \cup {NoToken} /\ up \in BOOLEAN
  /\ overtaken \subseteq Caller
  /\ call \in [Caller -> [at : Steps, read : Token \cup {NoToken},
                          got : Token \cup {NoToken}]]

(* The service never locks itself out: whatever calls overlap, a refresh   *)
(* token on disk that the bank takes no more is being replaced right now,  *)
(* or its successor was lost on the way, or a login ended it.              *)
NeverStranded ==
  disk # NoToken /\ disk \notin live =>
    disk \in burnt \cup revoked \/ Renewing(disk)

(* What a save puts on disk works, unless a login ended it meanwhile; and  *)
(* only a login's token can be lost under one: an answer that was still on *)
(* its way when the login was written.                                     *)
SavedTokenWorks ==
  [][\A c \in Caller : Save(c) =>
       /\ disk' \in live \cup revoked
       /\ disk \in live => c \in overtaken]_vars

(* A human is asked to log in only when that is needed, as far as a caller *)
(* is concerned whose token nobody else traded or replaced while it waited.*)
LoginNeeded == disk \notin live /\ ~Renewing(disk)
AuthRequiredUnlessRaced ==
  [][\A c \in Caller : RaiseAuthRequired(c) /\ c \notin overtaken => LoginNeeded]_vars

-----------------------------------------------------------------------------
(* The inductive invariant behind these properties.                        *)
Granted(c)  == call[c].at = "granted"
Usable     == live \cup revoked

(* Every token anywhere has been issued.                                   *)
Known ==
  /\ live \cup revoked \cup burnt \subseteq 1..issued
  /\ {disk, legacy, login} \subseteq 0..issued
  /\ \A c \in Caller : call[c].read <= issued /\ call[c].got <= issued

(* A token on its way to the disk is usable and known to its carrier alone.*)
Carried(k) == k \in Usable /\ k # disk /\ \A c \in Caller : c \in Waiting => call[c].read # k

InTransit ==
  /\ legacy # NoToken => Carried(legacy) /\ legacy # login
  /\ login # NoToken => Carried(login)
  /\ \A c \in Caller : Granted(c) =>
       /\ Carried(call[c].got) /\ call[c].got \notin {NoToken, legacy, login}
       /\ \A d \in Caller : Granted(d) /\ d # c => call[d].got # call[c].got

(* What a caller sent, and what it may conclude from not being overtaken.  *)
Sent ==
  \A c \in Caller : c \in Waiting =>
    /\ call[c].read # NoToken
    /\ call[c].at # "asking" => call[c].read \notin live
    /\ c \notin overtaken =>
         /\ disk = call[c].read
         /\ \A d \in Caller : Granted(d) /\ d # c => call[d].read # call[c].read

TokenInv == TypeOK /\ Known /\ InTransit /\ Sent /\ NeverStranded

=============================================================================
