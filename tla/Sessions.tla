------------------------------- MODULE Sessions -------------------------------
(***************************************************************************)
(* AuthService for one phone number: OtpService's code and attempts in     *)
(* Redis, the user's row, and the refresh tokens TokenService issues and   *)
(* rotates.  Codes, attempts and tokens are read and then written without  *)
(* a lock; only the unique phone number is enforced by the database.       *)
(*                                                                         *)
(* InsertUserAgain and MarkRotatedNot, used by no action, are defective    *)
(* forms of the definitions after them.                                    *)
(***************************************************************************)
EXTENDS Naturals, Sequences, FiniteSets

CONSTANTS
  AuthCalls,        \* how many calls are handled at once
  MaxTries,         \* otp.maxAttempts
  MaxSent,          \* bound: codes sent in a run
  MaxTokens,        \* bound: refresh tokens issued in a run
  MaxAuthFaults     \* bound: calls that die half-way

ASSUME SessionsAssumption ==
  /\ MaxTries \in Nat /\ MaxSent \in Nat /\ MaxTokens \in Nat /\ MaxAuthFaults \in Nat

VARIABLES
  code,        \* otp:<phone>: the number of the code, 0 when there is none
  young,       \* it was sent within the resend cooldown
  tries,       \* otp:<phone>:attempts
  sent,        \* codes sent so far
  users,       \* the rows of the users table with this phone number
  tokens,      \* the refresh_tokens rows
  auth,        \* the calls being handled
  serial,      \* so far no two refreshes of one login overlapped
  authFaults

authVars == <<code, young, tries, sent, users, tokens, auth, serial, authFaults>>

(* A revoked or expired row is dead, whatever rotatedAt says. *)
Token == [login : 1..MaxTokens, state : {"live", "rotated", "dead"}]
NoAuth == [pc |-> "idle", guess |-> 0, stored |-> 0, token |-> 0]
AuthCall == [pc : {"idle", "set", "reset", "count", "burn", "clear", "forget", "find",
                   "insert", "issue", "rotate", "reissue", "revokeAll"},
             guess : 0..MaxSent, stored : 0..MaxSent, token : 0..MaxTokens]

AuthInit == /\ code = 0 /\ young = FALSE /\ tries = 0 /\ sent = 0
            /\ users = 0 /\ tokens = <<>>
            /\ auth = [c \in AuthCalls |-> NoAuth]
            /\ serial = TRUE /\ authFaults = 0

AuthGoto(c, pc) == auth' = [auth EXCEPT ![c].pc = pc]
AuthEnds(c) == auth' = [auth EXCEPT ![c] = NoAuth]
AuthAt(c, pc) == auth[c].pc = pc

-----------------------------------------------------------------------------
(* sendOtp: the cooldown, the new code, the attempts.  A failed SMS is     *)
(* logged.                                                                 *)
SendOtp(c) ==
  /\ AuthAt(c, "idle") /\ ~(code # 0 /\ young)
  /\ AuthGoto(c, "set")
  /\ UNCHANGED <<code, young, tries, sent, users, tokens, serial, authFaults>>

SetCode(c) ==
  /\ AuthAt(c, "set") /\ sent < MaxSent
  /\ sent' = sent + 1 /\ code' = sent + 1 /\ young' = TRUE
  /\ AuthGoto(c, "reset")
  /\ UNCHANGED <<tries, users, tokens, serial, authFaults>>

ResetTries(c) ==
  /\ AuthAt(c, "reset")
  /\ tries' = 0
  /\ AuthEnds(c)
  /\ UNCHANGED <<code, young, sent, users, tokens, serial, authFaults>>

CooldownEnds == /\ young
                /\ young' = FALSE
                /\ UNCHANGED <<code, tries, sent, users, tokens, auth, serial, authFaults>>

CodeExpires == /\ code # 0
               /\ code' = 0 /\ young' = FALSE
               /\ UNCHANGED <<tries, sent, users, tokens, auth, serial, authFaults>>

(* verifyOtp: GET, INCR, compare, DEL, DEL. *)
VerifyOtp(c, guess) ==
  /\ AuthAt(c, "idle") /\ code # 0
  /\ auth' = [auth EXCEPT ![c] = [NoAuth EXCEPT !.pc = "count", !.guess = guess,
                                                !.stored = code]]
  /\ UNCHANGED <<code, young, tries, sent, users, tokens, serial, authFaults>>

CountTry(c) ==
  /\ AuthAt(c, "count")
  /\ tries' = IF tries > MaxTries THEN tries ELSE tries + 1
  /\ IF tries >= MaxTries THEN AuthGoto(c, "burn")
     ELSE IF auth[c].guess = auth[c].stored THEN AuthGoto(c, "clear")
     ELSE AuthEnds(c)
  /\ UNCHANGED <<code, young, sent, users, tokens, serial, authFaults>>

(* A code above its attempts, and an accepted one, are deleted. *)
DeleteCode(c) ==
  /\ auth[c].pc \in {"burn", "clear"}
  /\ code' = 0 /\ young' = FALSE
  /\ IF AuthAt(c, "burn") THEN AuthEnds(c) ELSE AuthGoto(c, "forget")
  /\ UNCHANGED <<tries, sent, users, tokens, serial, authFaults>>

ForgetTries(c) ==
  /\ AuthAt(c, "forget")
  /\ tries' = 0
  /\ AuthGoto(c, "find")
  /\ UNCHANGED <<code, young, sent, users, tokens, serial, authFaults>>

-----------------------------------------------------------------------------
(* findOrCreate, the login mark and the first token. *)
FindUser(c) ==
  /\ AuthAt(c, "find")
  /\ AuthGoto(c, IF users > 0 THEN "issue" ELSE "insert")
  /\ UNCHANGED <<code, young, tries, sent, users, tokens, serial, authFaults>>

InsertUserAgain(c) ==
  /\ AuthAt(c, "insert")
  /\ users' = users + 1 /\ AuthGoto(c, "issue")
  /\ UNCHANGED <<code, young, tries, sent, tokens, serial, authFaults>>
InsertUser(c) ==
  /\ AuthAt(c, "insert")
  /\ IF users = 0 THEN users' = 1 /\ AuthGoto(c, "issue")
                  ELSE AuthEnds(c) /\ UNCHANGED users
  /\ UNCHANGED <<code, young, tries, sent, tokens, serial, authFaults>>

NewToken(login) == /\ Len(tokens) < MaxTokens
                   /\ tokens' = Append(tokens, [login |-> login, state |-> "live"])

(* A login is numbered by its first token. *)
IssueTokens(c) ==
  /\ AuthAt(c, "issue")
  /\ NewToken(Len(tokens) + 1)
  /\ AuthEnds(c)
  /\ UNCHANGED <<code, young, tries, sent, users, serial, authFaults>>

-----------------------------------------------------------------------------
(* rotate: read, mark, issue; a token seen rotated revokes all. *)
Refreshing(login) ==
  {c \in AuthCalls : auth[c].token # 0 /\ tokens[auth[c].token].login = login}

Refresh(c, t) ==
  /\ AuthAt(c, "idle") /\ tokens[t].state # "dead"
  /\ auth' = [auth EXCEPT ![c] = [NoAuth EXCEPT
       !.pc = IF tokens[t].state = "rotated" THEN "revokeAll" ELSE "rotate", !.token = t]]
  /\ serial' = (serial /\ Refreshing(tokens[t].login) = {})
  /\ UNCHANGED <<code, young, tries, sent, users, tokens, authFaults>>

Rotated(token) == IF token.state = "dead" THEN token ELSE [token EXCEPT !.state = "rotated"]

MarkRotatedNot(c) ==
  /\ AuthAt(c, "rotate")
  /\ AuthGoto(c, "reissue")
  /\ UNCHANGED <<code, young, tries, sent, users, tokens, serial, authFaults>>
MarkRotated(c) ==
  /\ AuthAt(c, "rotate")
  /\ tokens' = [tokens EXCEPT ![auth[c].token] = Rotated(@)]
  /\ AuthGoto(c, "reissue")
  /\ UNCHANGED <<code, young, tries, sent, users, serial, authFaults>>

Reissue(c) ==
  /\ AuthAt(c, "reissue")
  /\ NewToken(tokens[auth[c].token].login)
  /\ AuthEnds(c)
  /\ UNCHANGED <<code, young, tries, sent, users, serial, authFaults>>

RevokeAll(c) ==
  /\ AuthAt(c, "revokeAll")
  /\ tokens' = [t \in DOMAIN tokens |-> [tokens[t] EXCEPT !.state = "dead"]]
  /\ AuthEnds(c)
  /\ UNCHANGED <<code, young, tries, sent, users, serial, authFaults>>

(* logout, or thirty days. *)
RevokeToken(t) ==
  /\ tokens[t].state # "dead"
  /\ tokens' = [tokens EXCEPT ![t].state = "dead"]
  /\ UNCHANGED <<code, young, tries, sent, users, auth, serial, authFaults>>

AuthCallDies(c) ==
  /\ ~AuthAt(c, "idle") /\ authFaults < MaxAuthFaults
  /\ authFaults' = authFaults + 1
  /\ AuthEnds(c)
  /\ UNCHANGED <<code, young, tries, sent, users, tokens, serial>>

AuthStep(c) ==
  \/ SendOtp(c) \/ SetCode(c) \/ ResetTries(c)
  \/ \E guess \in 0..sent : VerifyOtp(c, guess)
  \/ CountTry(c) \/ DeleteCode(c) \/ ForgetTries(c)
  \/ FindUser(c) \/ InsertUser(c) \/ IssueTokens(c)
  \/ \E t \in DOMAIN tokens : Refresh(c, t)
  \/ MarkRotated(c) \/ Reissue(c) \/ RevokeAll(c) \/ AuthCallDies(c)

AuthNext == \/ \E c \in AuthCalls : AuthStep(c)
            \/ CooldownEnds \/ CodeExpires
            \/ \E t \in DOMAIN tokens : RevokeToken(t)

AuthSpec == AuthInit /\ [][AuthNext]_authVars

-----------------------------------------------------------------------------
(* One row per phone number, however many first logins race: the unique    *)
(* constraint refuses the second (findOrCreate 53-60).                     *)
AuthTypeOK ==
  /\ code \in 0..MaxSent /\ young \in BOOLEAN /\ tries \in 0..MaxTries + 1
  /\ sent \in 0..MaxSent /\ users \in 0..1
  /\ tokens \in Seq(Token) /\ Len(tokens) <= MaxTokens
  /\ auth \in [AuthCalls -> AuthCall]
  /\ serial \in BOOLEAN /\ authFaults \in 0..MaxAuthFaults

(* A login has one usable refresh token at most, whatever calls die in the *)
(* middle, as long as no two refreshes of that login overlap (rotate       *)
(* 62-91: "Rotation = one-time use").                                      *)
OneLiveTokenWhileSerial ==
  serial => \A s, t \in DOMAIN tokens :
              /\ tokens[s].state = "live" /\ tokens[t].state = "live"
              /\ tokens[s].login = tokens[t].login
              => s = t

-----------------------------------------------------------------------------
(* Why: while refreshes of a login do not overlap, the one under way holds *)
(* the login's only live token until it has marked it, and then nobody     *)
(* holds one until it issues the next.                                     *)
Rotating == {"rotate", "reissue", "revokeAll"}
LoginOf(c) == tokens[auth[c].token].login
LiveOf(login) == {t \in DOMAIN tokens : tokens[t].state = "live" /\ tokens[t].login = login}

RefreshesApart ==
  /\ \A c, d \in AuthCalls :
       auth[c].token # 0 /\ auth[d].token # 0 /\ LoginOf(c) = LoginOf(d) => c = d
  /\ \A c \in AuthCalls :
       /\ auth[c].pc = "rotate" => LiveOf(LoginOf(c)) \subseteq {auth[c].token}
       /\ auth[c].pc = "reissue" => LiveOf(LoginOf(c)) = {}

AuthIInv ==
  /\ AuthTypeOK
  /\ \A t \in DOMAIN tokens : tokens[t].login <= t
  /\ \A c \in AuthCalls : /\ auth[c].token # 0 <=> auth[c].pc \in Rotating
                          /\ auth[c].token # 0 => auth[c].token \in DOMAIN tokens
  /\ serial => RefreshesApart
  /\ OneLiveTokenWhileSerial
=============================================================================
