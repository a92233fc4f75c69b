---- MODULE SignIn ----
(***************************************************************************)
(* The user half of the agent's identity: AuthService (sentinel-agent/src/ *)
(* auth/mod.rs), the refresh token in Credential Manager (auth/store.rs),  *)
(* the browser sign-in (auth/pkce.rs, loopback.rs, browser.rs) and the     *)
(* token endpoint as the client uses it (api.rs).  The identity provider   *)
(* is external: it may rotate the refresh token with every redemption, and *)
(* a rotated token is spent.  Refresh tokens are numbered, 0 is none.      *)
(***************************************************************************)
EXTENDS Naturals, Sequences, FiniteSets

CONSTANTS Users, NoUser,
          MaxToken, \* bound: refresh tokens issued
          MaxFault  \* bound: failures of any kind and sign-ins without a token

ASSUME SignInAssumption ==
    /\ NoUser \notin Users
    /\ MaxToken \in Nat /\ MaxFault \in Nat

VARIABLES auth,   \* AuthState: the user signed in, NoUser when signed out
          fresh,  \* the ID token published with it has not expired
          stored, \* the refresh token in Credential Manager
          holder, \* identity provider: the user of each refresh token issued
          live,   \* identity provider: the refresh tokens it still redeems
          left,   \* history: the last deliberate act was a sign-out
          undone, \* history: a deletion of the stored token failed
          faults  \* how many failures there were

signInVars == <<auth, fresh, stored, holder, live, left, undone, faults>>
idpVars == <<holder, live>>

SignInTypeOK ==
    /\ auth \in Users \cup {NoUser}
    /\ {fresh, left, undone} \subseteq BOOLEAN
    /\ holder \in Seq(Users) /\ Len(holder) <= MaxToken
    /\ stored \in 0..Len(holder) /\ live \subseteq 1..Len(holder)
    /\ faults \in 0..MaxFault

\* A profile nobody has signed in from yet.
SignInInit ==
    /\ auth = NoUser /\ fresh = FALSE /\ stored = 0
    /\ holder = <<>> /\ live = {} /\ left = FALSE /\ undone = FALSE /\ faults = 0

\* The bound on failures.
Failure ==
    /\ faults < MaxFault
    /\ faults' = faults + 1

-----------------------------------------------------------------------------
\* adopt: the refresh token is stored before the credentials are published; an answer
\* without one leaves the stored token in place.
Adopt(u, t) ==
    /\ stored' = IF t = 0 THEN stored ELSE t
    /\ auth' = u /\ fresh' = TRUE

\* The provider issues a refresh token to u in place of the spent ones.
Issue(u, spent) ==
    /\ Len(holder) < MaxToken
    /\ holder' = Append(holder, u)
    /\ live' = (live \ spent) \cup {Len(holder) + 1}

NextToken == Len(holder) + 1

\* restore and refresh_now, by what becomes of the redemption.

\* Redeemed, with a new refresh token in the answer or without.
RedeemKept ==
    /\ stored \in live
    /\ Adopt(holder[stored], 0)
    /\ UNCHANGED <<idpVars, left, undone, faults>>

RedeemRotated ==
    /\ stored \in live
    /\ Issue(holder[stored], {stored})
    /\ Adopt(holder[stored], NextToken)
    /\ UNCHANGED <<left, undone, faults>>

\* Redeemed, but the answer is lost or unusable, or the new token cannot be stored: the
\* credentials are not published and the token left in the store is spent.
RedeemWasted ==
    /\ stored \in live /\ Failure
    /\ Issue(holder[stored], {stored})
    /\ UNCHANGED <<auth, fresh, stored, left, undone>>

\* No token, a token the provider refuses, or no answer.
RedeemRefused ==
    /\ stored \notin live
    /\ UNCHANGED signInVars

RedeemUnreachable ==
    /\ stored \in live /\ Failure
    /\ UNCHANGED <<auth, fresh, stored, idpVars, left, undone>>

\* A credential that cannot be unwrapped is discarded and counts as none.
LoadCorrupt ==
    /\ stored # 0 /\ Failure
    /\ stored' = 0
    /\ UNCHANGED <<auth, fresh, idpVars, left, undone>>

Redeem == RedeemKept \/ RedeemRotated \/ RedeemWasted \/ RedeemRefused
            \/ RedeemUnreachable \/ LoadCorrupt

-----------------------------------------------------------------------------
\* sign_in_interactive, from the answer in the browser on.  A request for another path is
\* answered with 404 and waited past.

\* The callback validates, the code is exchanged and the tokens are adopted; an answer
\* without a refresh token leaves the one of whoever signed in before.
Exchanged(u) ==
    /\ \/ Issue(u, {}) /\ Adopt(u, NextToken) /\ UNCHANGED faults
       \/ Failure /\ Adopt(u, 0) /\ UNCHANGED idpVars
    /\ left' = FALSE
    /\ UNCHANGED undone

\* An attempt that ends without a session changes nothing on this side: the browser does
\* not open, nobody answers in time, the callback is an error, incomplete or another
\* attempt's (ClientRules), or the exchange is refused.
SignInFails == Failure /\ UNCHANGED <<auth, fresh, stored, idpVars, left, undone>>

\* The exchange succeeds and the refresh token cannot be stored.
ExchangedUnsaved(u) ==
    /\ Failure
    /\ Issue(u, {})
    /\ UNCHANGED <<auth, fresh, stored, left, undone>>

-----------------------------------------------------------------------------
\* Mutant of ClearTokens: the credential is left in the store.
ForgetOnly ==
    /\ auth' = NoUser /\ fresh' = FALSE /\ left' = TRUE
    /\ UNCHANGED <<stored, idpVars, undone, faults>>

\* The last steps of sign_out.  A deletion that fails is taken for a credential that was
\* not there.
ClearTokens ==
    /\ auth' = NoUser /\ fresh' = FALSE /\ left' = TRUE
    /\ UNCHANGED idpVars
    /\ \/ stored' = 0 /\ UNCHANGED <<undone, faults>>
       \/ stored # 0 /\ Failure /\ undone' = TRUE /\ UNCHANGED stored

\* The ID token's hour is over, or the provider withdraws a refresh token.
TokenExpires ==
    /\ fresh
    /\ fresh' = FALSE
    /\ UNCHANGED <<auth, stored, idpVars, left, undone, faults>>

TokenWithdrawn ==
    /\ stored \in live /\ Failure
    /\ live' = live \ {stored}
    /\ UNCHANGED <<auth, fresh, stored, holder, left, undone>>
====
