---- MODULE Enrollment ----
(***************************************************************************)
(* The device credential: the enrollment exchange and the renewal of the   *)
(* certificate (sentinel-service/src/enroll.rs, http.rs, main.rs), the     *)
(* files it writes one after the other (device.rs, spoolkey.rs,            *)
(* devicekey/), and the gateway's handler (server/gateway/internal/api/    *)
(* enroll.go).  The service may stop between any two writes, a request may *)
(* reach the gateway after the client has given up on it, and an answer    *)
(* may be lost.  Certificates, keys and requests are numbered, 0 is none.  *)
(***************************************************************************)
EXTENDS Naturals, Sequences, FiniteSets

CONSTANTS Tokens, NoToken,
          MaxCert,    \* bound: certificates the gateway issues
          MaxRequest, \* bound: enrollment requests under way at a time
          MaxFault    \* bound: failures of any kind

ASSUME EnrollmentAssumption ==
    /\ NoToken \notin Tokens
    /\ MaxCert \in Nat /\ MaxRequest \in Nat /\ MaxFault \in Nat

VARIABLES key,        \* the device key: which one the key store holds
          cert,       \* device.crt: which certificate
          chain,      \* ca-chain.crt, by the certificate it came with
          ident,      \* identity.json, by the certificate it describes
          spoolKey,   \* spool.key
          regTok,     \* the installer's token in the registry
          newTok,     \* the renewal-token file
          usable,     \* gateway: the tokens not consumed and not expired
          registered, \* gateway: the certificate of the device row
          issued,     \* gateway: per issued certificate the device key it certifies
          aged,       \* the certificates inside their renewal window
          inflight,   \* requests the gateway has not handled yet
          step,       \* where the service is in ensure_device_credential
          job,        \* the exchange under way: request, token, whether from the file
          keys,       \* how many device keys were generated
          spoolKeys,  \* how many spool keys were generated
          lost,       \* history: an answer that registered a certificate never arrived
          faults      \* how many failures there were

diskVars == <<key, cert, chain, ident, spoolKey, regTok, newTok>>
gatewayVars == <<usable, registered, issued, inflight>>
enrollVars == <<diskVars, gatewayVars, aged, step, job, keys, spoolKeys, lost, faults>>

Certs == 1..MaxCert
Steps == {"off", "key", "decide", "sent", "cert", "chain", "identity", "spoolkey", "clear"}
NoJob == [req |-> 0, tok |-> NoToken, file |-> FALSE, cert |-> 0]
Request == [req : 1..MaxRequest, tok : Tokens, key : Nat]

EnrollmentTypeOK ==
    /\ key \in Nat /\ keys \in Nat /\ spoolKey \in Nat /\ spoolKeys \in Nat
    /\ {cert, chain, ident, registered} \subseteq 0..MaxCert
    /\ regTok \in Tokens \cup {NoToken} /\ newTok \in Tokens \cup {NoToken}
    /\ usable \subseteq Tokens /\ aged \subseteq Certs
    /\ issued \in Seq(Nat) /\ Len(issued) <= MaxCert
    /\ inflight \subseteq Request
    /\ step \in Steps
    /\ job \in [req : 0..MaxRequest, tok : Tokens \cup {NoToken}, file : BOOLEAN,
                cert : 0..MaxCert]
    /\ lost \in BOOLEAN
    /\ faults \in 0..MaxFault

\* A machine the installer was given a token for, or not.
EnrollmentInit ==
    /\ key = 0 /\ keys = 0 /\ cert = 0 /\ chain = 0 /\ ident = 0
    /\ spoolKey = 0 /\ spoolKeys = 0
    /\ newTok = NoToken /\ regTok \in Tokens \cup {NoToken}
    /\ usable = Tokens /\ registered = 0 /\ issued = <<>> /\ aged = {} /\ inflight = {}
    /\ step = "off" /\ job = NoJob /\ lost = FALSE /\ faults = 0

\* The bound on failures.
Failure ==
    /\ faults < MaxFault
    /\ faults' = faults + 1

-----------------------------------------------------------------------------
\* The operator, the clock and the token's lifetime.

\* A fresh token is dropped into the credential directory, or installed again.
TokenDropped(t) ==
    /\ newTok' = t
    /\ newTok # t /\ t \in usable
    /\ UNCHANGED <<key, cert, chain, ident, spoolKey, regTok, gatewayVars, aged, step, job,
                   keys, spoolKeys, lost, faults>>

TokenInstalled(t) ==
    /\ regTok' = t
    /\ regTok # t /\ t \in usable
    /\ UNCHANGED <<key, cert, chain, ident, spoolKey, newTok, gatewayVars, aged, step, job,
                   keys, spoolKeys, lost, faults>>

TokenExpires(t) ==
    /\ t \in usable /\ Failure
    /\ usable' = usable \ {t}
    /\ UNCHANGED <<diskVars, registered, issued, inflight, aged, step, job, keys, spoolKeys,
                   lost>>

\* The certificate on disk enters its last thirty days.
CertificateAges ==
    /\ ident # 0 /\ ident \notin aged
    /\ Len(issued) < MaxCert      \* bound: there is one left to renew it with
    /\ aged' = aged \cup {ident}
    /\ UNCHANGED <<diskVars, gatewayVars, step, job, keys, spoolKeys, lost, faults>>

-----------------------------------------------------------------------------
\* ensure_device_credential, at the start of the service and every six hours.

Finish == step' = "off" /\ job' = NoJob

\* Mutant of OpenOrCreate: a key is generated each time.
CreateKey == key' = keys + 1 /\ keys' = keys + 1

\* The existing device key, or a new one where the key store has none.
OpenOrCreate ==
    IF key # 0 THEN UNCHANGED <<key, keys>>
    ELSE key' = keys + 1 /\ keys' = keys + 1

\* The key comes before the token: a key store that refuses costs no token.
OpenKey ==
    /\ step = "key"
    /\ OpenOrCreate
    /\ step' = "decide"
    /\ UNCHANGED <<cert, chain, ident, spoolKey, regTok, newTok, gatewayVars, aged, job,
                   spoolKeys, lost, faults>>

\* The key store refuses, or what enroll checks before the request does: the tier, the
\* signature of the CSR.
NoExchange ==
    /\ step \in {"key", "decide"}
    /\ Failure /\ Finish
    /\ UNCHANGED <<diskVars, gatewayVars, aged, keys, spoolKeys, lost>>

\* The renewal file comes before the registry.
Token == IF newTok # NoToken THEN newTok ELSE regTok

\* renewal_decision: nothing is due, or there is no token to do it with.
Due == ident = 0 \/ ident \in aged
NothingToDo ==
    /\ step = "decide"
    /\ ~Due \/ Token = NoToken
    /\ Finish
    /\ UNCHANGED <<diskVars, gatewayVars, aged, keys, spoolKeys, lost, faults>>

\* enroll, up to the one request.
SendRequest(r) ==
    /\ step = "decide"
    /\ Due /\ Token # NoToken
    /\ \A q \in inflight : q.req # r
    /\ inflight' = inflight \cup {[req |-> r, tok |-> Token, key |-> key]}
    /\ job' = [req |-> r, tok |-> Token, file |-> newTok # NoToken, cert |-> 0]
    /\ step' = "sent"
    /\ UNCHANGED <<diskVars, usable, registered, issued, aged, keys, spoolKeys, lost, faults>>

Waiting(q) == step = "sent" /\ job.req = q.req

\* The request never reaches the gateway, or is refused before its token is consumed
\* (503 no_ca, a bad request).
RequestLost(q) ==
    /\ q \in inflight /\ Failure
    /\ inflight' = inflight \ {q}
    /\ IF Waiting(q) THEN Finish ELSE UNCHANGED <<step, job>>
    /\ UNCHANGED <<diskVars, usable, registered, issued, aged, keys, spoolKeys, lost>>

\* The request times out at the client; the gateway may still handle it.
GiveUp ==
    /\ step = "sent" /\ Failure
    /\ Finish
    /\ UNCHANGED <<diskVars, gatewayVars, aged, keys, spoolKeys, lost>>

-----------------------------------------------------------------------------
\* enrollDevice in the gateway.

\* 401 token_unusable.
TokenRefused(q) ==
    /\ q \in inflight /\ q.tok \notin usable
    /\ inflight' = inflight \ {q}
    /\ IF Waiting(q) THEN Finish ELSE UNCHANGED <<step, job>>
    /\ UNCHANGED <<diskVars, usable, registered, issued, aged, keys, spoolKeys, lost, faults>>

\* The token is consumed and then signing or registering fails.
SigningFails(q) ==
    /\ q \in inflight /\ q.tok \in usable /\ Failure
    /\ inflight' = inflight \ {q} /\ usable' = usable \ {q.tok}
    /\ IF Waiting(q) THEN Finish ELSE UNCHANGED <<step, job>>
    /\ UNCHANGED <<diskVars, registered, issued, aged, keys, spoolKeys, lost>>

\* The certificate is signed and replaces the previous one in the device row.  Nobody
\* may be waiting for the answer any more.
Issue(q) ==
    /\ q \in inflight /\ q.tok \in usable
    /\ Len(issued) < MaxCert
    /\ inflight' = inflight \ {q} /\ usable' = usable \ {q.tok}
    /\ issued' = Append(issued, q.key) /\ registered' = Len(issued) + 1
    /\ IF Waiting(q)
       THEN /\ step' = "cert" /\ job' = [job EXCEPT !.cert = Len(issued) + 1]
            /\ UNCHANGED lost
       ELSE /\ lost' = TRUE
            /\ UNCHANGED <<step, job>>
    /\ UNCHANGED <<diskVars, aged, keys, spoolKeys, faults>>

\* The 201 is lost on the way back, or does not decode.
AnswerLost ==
    /\ step = "cert" /\ Failure
    /\ lost' = TRUE
    /\ Finish
    /\ UNCHANGED <<diskVars, gatewayVars, aged, keys, spoolKeys>>

-----------------------------------------------------------------------------
\* persist and generate_and_store: four files, one after the other.

\* Mutant of WriteCertificate: the identity record comes first.
IdentityBeforeCertificate ==
    /\ step = "cert"
    /\ ident' = job.cert
    /\ step' = "chain"
    /\ UNCHANGED <<key, cert, chain, spoolKey, regTok, newTok, gatewayVars, aged, job, keys,
                   spoolKeys, lost, faults>>

\* Mutant of WriteCertificate: a certificate that is there stays.
WriteCertificateOnce ==
    /\ step = "cert"
    /\ cert' = IF cert = 0 THEN job.cert ELSE cert
    /\ step' = "chain"
    /\ UNCHANGED <<key, chain, ident, spoolKey, regTok, newTok, gatewayVars, aged, job, keys,
                   spoolKeys, lost, faults>>

WriteCertificate ==
    /\ step = "cert"
    /\ cert' = job.cert
    /\ step' = "chain"
    /\ UNCHANGED <<key, chain, ident, spoolKey, regTok, newTok, gatewayVars, aged, job, keys,
                   spoolKeys, lost, faults>>

WriteChain ==
    /\ step = "chain"
    /\ chain' = job.cert
    /\ step' = "identity"
    /\ UNCHANGED <<key, cert, ident, spoolKey, regTok, newTok, gatewayVars, aged, job, keys,
                   spoolKeys, lost, faults>>

\* save_identity: from here on the machine is enrolled.
WriteIdentity ==
    /\ step = "identity"
    /\ ident' = job.cert
    /\ step' = "spoolkey"
    /\ UNCHANGED <<key, cert, chain, spoolKey, regTok, newTok, gatewayVars, aged, job, keys,
                   spoolKeys, lost, faults>>

\* generate_and_store, for a first enrollment and for a renewal alike.
StoreSpoolKey ==
    /\ step = "spoolkey"
    /\ spoolKey' = spoolKeys + 1 /\ spoolKeys' = spoolKeys + 1
    /\ step' = "clear"
    /\ UNCHANGED <<key, cert, chain, ident, regTok, newTok, gatewayVars, aged, job, keys, lost,
                   faults>>

\* A file cannot be written, or the key not wrapped: the exchange has failed.
WriteFails ==
    /\ step \in {"cert", "chain", "identity", "spoolkey"} /\ Failure
    /\ lost' = (lost \/ step = "cert")
    /\ Finish
    /\ UNCHANGED <<diskVars, gatewayVars, aged, keys, spoolKeys>>

\* The token's place is emptied, whatever it holds by now.
ClearRenewalToken == newTok' = NoToken /\ UNCHANGED regTok
ClearEnrollmentToken == regTok' = NoToken /\ UNCHANGED newTok
ClearToken ==
    /\ step = "clear"
    /\ IF job.file THEN ClearRenewalToken ELSE ClearEnrollmentToken
    /\ Finish
    /\ UNCHANGED <<key, cert, chain, ident, spoolKey, gatewayVars, aged, keys, spoolKeys, lost,
                   faults>>

\* One step of the exchange by the service.
EnrollStep ==
    \/ OpenKey \/ NothingToDo
    \/ \E r \in 1..MaxRequest : SendRequest(r)
    \/ WriteCertificate \/ WriteChain \/ WriteIdentity \/ StoreSpoolKey \/ ClearToken

EnrollFault ==
    \/ NoExchange \/ GiveUp \/ AnswerLost \/ WriteFails
    \/ \E q \in inflight : RequestLost(q) \/ SigningFails(q)
    \/ \E t \in Tokens : TokenExpires(t)

Operator ==
    \/ \E t \in Tokens : TokenDropped(t) \/ TokenInstalled(t)
    \/ CertificateAges

Gateway == \E q \in inflight : TokenRefused(q) \/ Issue(q)

\* What is lost with the service process: the exchange it was in.
EnrollCrash ==
    /\ lost' = (lost \/ step = "cert")
    /\ Finish
    /\ UNCHANGED <<diskVars, gatewayVars, aged, keys, spoolKeys>>
====
