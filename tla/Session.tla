------------------------------- MODULE Session -------------------------------
(***************************************************************************)
(* The HTTP session of Sep2Client: the TLS context and the LFDI it is      *)
(* built from, the pooled connections and the audit of the peer's chain at *)
(* the handshake, the retries that pick a session up again, and the        *)
(* management API's calls that swap the certificate or the trust store     *)
(* while requests are under way.  Python 3.13 or later; before, the chain  *)
(* cannot be read and both audits are skipped.                             *)
(***************************************************************************)
EXTENDS Naturals, FiniteSets

CONSTANTS
    Requests,
    Gets,        \* the requests that are GETs: these validate the chain as well
    Certs, CAs,  \* paths; those that can be loaded are LoadableCerts and LoadableCAs
    LoadableCerts, LoadableCAs,
    None,
    MaxTries,    \* attempts of one request
    MaxUpdates,  \* swaps and resets
    MaxChanges   \* changes of the server's chain

VARIABLES
    config,      \* _tls_config
    ssl,         \* _ssl: what it was built from, and which context it is
    lfdi,        \* _client_lfdi, by the certificate it was computed from
    session,     \* _session: [id, lfdi], or None once closed
    orphans,     \* sessions whose close is a background task
    pool,        \* the connections made: [id, ssl, chain]
    req,         \* request -> its attempt under way
    tries, validated,
    resets,      \* reset_session calls awaiting the session's close
    chain,       \* what the server presents: it conforms to the profile or not
    made, updates, changes,
    failed,      \* history: an update raised
    accepted     \* history: whether the connections answers were accepted over conformed

client == <<config, ssl, lfdi, updates, failed>>
link == <<session, orphans, pool, made>>
reqs == <<req, tries>>
server == <<chain, changes>>
vars == <<client, link, reqs, validated, resets, server, accepted>>

Contexts == [cert : Certs, ca : CAs, n : 0..MaxUpdates]
Idle == [at |-> "idle", id |-> 0, lfdi |-> None, ssl |-> None]

TypeOK ==
    /\ config \in [cert : Certs, ca : CAs] /\ ssl \in Contexts /\ lfdi \in Certs \cup {None}
    /\ (session = None \/ session.lfdi \in Certs \cup {None}) /\ orphans \subseteq 1..made
    /\ \A c \in pool : c.id \in 1..made /\ c.ssl \in Contexts
    /\ accepted \subseteq BOOLEAN
    /\ \A r \in Requests : req[r].at \in {"idle", "connecting", "sent"}
    /\ tries \in [Requests -> 0..MaxTries] /\ validated \in BOOLEAN
    /\ resets \in Nat /\ chain \in BOOLEAN

Init ==
    /\ \E c \in LoadableCerts, a \in LoadableCAs :
         config = [cert |-> c, ca |-> a] /\ ssl = [cert |-> c, ca |-> a, n |-> 0] /\ lfdi = c
    /\ session = None /\ orphans = {} /\ pool = {} /\ made = 0
    /\ req = [r \in Requests |-> Idle] /\ tries = [r \in Requests |-> 0]
    /\ validated = FALSE /\ resets = 0 /\ chain \in BOOLEAN
    /\ updates = 0 /\ changes = 0 /\ failed = FALSE /\ accepted = {}

-----------------------------------------------------------------------------
(* _get_session: a closed session is replaced; its headers are fixed then. *)
GetSession ==
    IF session # None THEN UNCHANGED <<session, made>>
    ELSE made' = made + 1 /\ session' = [id |-> made + 1, lfdi |-> lfdi]

(* One attempt of a request: session and context are read together. *)
Attempt(r) ==
    /\ req[r].at = "idle" /\ tries[r] < MaxTries /\ tries' = [tries EXCEPT ![r] = @ + 1]
    /\ GetSession
    /\ req' = [req EXCEPT ![r] =
                 [at |-> "connecting", id |-> session'.id, lfdi |-> session'.lfdi, ssl |-> ssl]]
    /\ UNCHANGED <<client, orphans, pool, validated, resets, server, accepted>>

(* Closing a session closes its connections. *)
Closed == pool' = {c \in pool : session = None \/ c.id # session.id} /\ session' = None

(* The session the attempt uses is still open. *)
Open(id) == (session # None /\ session.id = id) \/ id \in orphans
PooledFor(q) == {c \in pool : c.id = q.id /\ c.ssl = q.ssl}

(* A pooled connection of the same context carries it. *)
Reuse(r) ==
    /\ req[r].at = "connecting" /\ Open(req[r].id) /\ PooledFor(req[r]) # {}
    /\ req' = [req EXCEPT ![r].at = "sent"]
    /\ UNCHANGED <<client, link, tries, validated, resets, server, accepted>>

(* Mutant: the audit is left to the first GET. *)
AuditLater == TRUE
(* _audit_peer_chain after the handshake: what it refuses is closed, and   *)
(* reported to no observer (_wrap_create_connection, _report_socket).      *)
Audit == chain
Connect(r) ==
    /\ req[r].at = "connecting" /\ Open(req[r].id) /\ PooledFor(req[r]) = {} /\ Audit
    /\ pool' = pool \cup {[id |-> req[r].id, ssl |-> req[r].ssl, chain |-> chain]}
    /\ req' = [req EXCEPT ![r].at = "sent"]
    /\ UNCHANGED <<client, session, orphans, made, tries, validated, resets, server, accepted>>

(* _validate_chain, by a GET, once until something clears it. *)
Validates(r) == r \in Gets /\ ~validated
Answered(r) ==
    /\ req[r].at = "sent" /\ Open(req[r].id)
    /\ \E c \in PooledFor(req[r]) :
         /\ Validates(r) => c.chain
         /\ accepted' = accepted \cup {c.chain}
    /\ validated' = (validated \/ r \in Gets)
    /\ req' = [req EXCEPT ![r] = Idle] /\ tries' = [tries EXCEPT ![r] = MaxTries]
    /\ UNCHANGED <<client, link, resets, server>>

(* Any failure of the attempt: the handshake or the audit refused, the     *)
(* link broke, the session was closed under it.                            *)
Fails(r) ==
    /\ req[r].at # "idle" /\ req' = [req EXCEPT ![r] = Idle]
    /\ validated' = (validated /\ r \notin Gets)
    /\ UNCHANGED <<client, link, tries, resets, server, accepted>>

-----------------------------------------------------------------------------
(* create_ssl_context raises where a file cannot be loaded. *)
Loads(cfg) == cfg.cert \in LoadableCerts /\ cfg.ca \in LoadableCAs
(* The new configuration is kept whether or not the context could be built. *)
Rebuild(cfg) ==
    /\ config' = cfg /\ updates' = updates + 1
    /\ ssl' = IF Loads(cfg) THEN [cert |-> cfg.cert, ca |-> cfg.ca, n |-> updates + 1] ELSE ssl
    /\ validated' = (validated /\ ~Loads(cfg)) /\ failed' = (failed \/ ~Loads(cfg))

(* The new trust, then reset_session: the open session closes at once.     *)
UpdateCaTrust(ca) ==
    /\ updates < MaxUpdates /\ Rebuild([config EXCEPT !.ca = ca])
    /\ IF Loads(config') THEN Closed /\ resets' = resets + 1 ELSE UNCHANGED <<session, pool, resets>>
    /\ UNCHANGED <<lfdi, orphans, made, reqs, server, accepted>>

(* Mutant: the session of the old certificate goes on. *)
KeepsSession(cfg) == lfdi' = cfg.cert /\ UNCHANGED <<session, orphans>>
(* update_client_cert: the LFDI is computed again and the session dropped, *)
(* closed in the background; the reset then finds none to wait for.        *)
Swapped(cfg) ==
    /\ lfdi' = cfg.cert /\ session' = None
    /\ orphans' = orphans \cup (IF session = None THEN {} ELSE {session.id})
UpdateClientCert(cert) ==
    /\ updates < MaxUpdates /\ Rebuild([config EXCEPT !.cert = cert])
    /\ IF Loads(config') THEN Swapped(config')
       ELSE UNCHANGED <<lfdi, session, orphans>>
    /\ UNCHANGED <<pool, made, reqs, resets, server, accepted>>

ResetTls ==
    /\ updates < MaxUpdates /\ updates' = updates + 1 /\ Closed /\ resets' = resets + 1
    /\ UNCHANGED <<config, ssl, lfdi, failed, orphans, made, reqs, validated, server, accepted>>
ResetDone ==
    /\ resets > 0 /\ resets' = resets - 1 /\ validated' = FALSE
    /\ UNCHANGED <<client, link, reqs, server, accepted>>

(* _close_session_best_effort. *)
CloseOrphan(id) ==
    /\ id \in orphans /\ orphans' = orphans \ {id} /\ pool' = {c \in pool : c.id # id}
    /\ UNCHANGED <<client, session, made, reqs, validated, resets, server, accepted>>

(* The server is given another chain; connections made before are as they were. *)
ChainChanges ==
    /\ changes < MaxChanges /\ changes' = changes + 1 /\ chain' = ~chain
    /\ UNCHANGED <<client, link, reqs, validated, resets, accepted>>

Next == \/ \E r \in Requests : Attempt(r) \/ Reuse(r) \/ Connect(r) \/ Answered(r) \/ Fails(r)
        \/ \E ca \in CAs : UpdateCaTrust(ca)
        \/ \E cert \in Certs : UpdateClientCert(cert)
        \/ ResetTls \/ ResetDone \/ (\E id \in orphans : CloseOrphan(id)) \/ ChainChanges
Spec == Init /\ [][Next]_vars

-----------------------------------------------------------------------------
(* Whatever is swapped while requests run and retry: each attempt goes out *)
(* under the LFDI of the certificate it presents; no answer is accepted    *)
(* over a connection whose chain did not conform; and an attempt of the    *)
(* session in use is made under the trust in force (update_client_cert,    *)
(* update_ca_trust, _get_session, _wrap_create_connection).  Where an      *)
(* update raised, see HeaderIsCertificates.                                *)
IdentityAgrees ==
    /\ ~failed => \A r \in Requests : req[r].at # "idle" => req[r].lfdi = req[r].ssl.cert
    /\ FALSE \notin accepted
    /\ \A r \in Requests : req[r].at # "idle" /\ session # None /\ req[r].id = session.id
                             => req[r].ssl = ssl

(* Its inductive strengthening: until an update raises, configuration,     *)
(* context, LFDI and the open session's header are of one certificate;     *)
(* sessions are numbered as they are made; and the pool holds connections  *)
(* whose chain conformed.                                                  *)
Shape ==
    /\ config \in [cert : Certs, ca : CAs] /\ made \in Nat /\ updates \in Nat
    /\ chain \in BOOLEAN /\ failed \in BOOLEAN /\ DOMAIN req = Requests
Agree ==
    ~failed => /\ config.cert = ssl.cert /\ lfdi = ssl.cert
               /\ session # None => session.lfdi = lfdi
Numbered ==
    /\ session # None => session.id \in 1..made
    /\ \A r \in Requests : req[r].at # "idle" => req[r].id \in 0..made
Conforming == \A c \in pool : c.chain = TRUE
IInv == Shape /\ Agree /\ Numbered /\ Conforming /\ IdentityAgrees

(* update_client_cert's docstring: it recomputes _client_lfdi "so the new  *)
(* cert's identity takes effect immediately -- without that, the `LFDI:`   *)
(* request header (and the client LFDI in exchange records) would keep the *)
(* OLD cert's LFDI."                                                       *)
HeaderIsCertificates == \A r \in Requests : req[r].at # "idle" => req[r].lfdi = req[r].ssl.cert
=============================================================================
