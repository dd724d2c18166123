---------------------------- MODULE Services_proof ----------------------------
(***************************************************************************)
(* Proofs about parts that MCServices composes, for all values of their    *)
(* constants.  A part's variables are MCServices' pooled ones; each proof  *)
(* gives them their names back where it speaks of them.  The inductive     *)
(* invariants, IInv, stand with the properties in the parts' modules.      *)
(***************************************************************************)
EXTENDS MCServices, TLAPS

-----------------------------------------------------------------------------
(* A behaviour is one of one part, from its initial states by its steps.   *)

(* Initially: the parts proved about start in their own initial states. *)
LEMMA PartInit ==
    ASSUME Init
    PROVE  /\ part = "tariffs" => Pricing!Init
           /\ part = "session" => Sessions!Init
           /\ part = "listener" => Listening!Init
           /\ part = "editions" => Speaking!Init
           /\ part = "dispatch" => Dispatching!Init
           /\ part = "command" => Running!Init
           /\ part = "clock" => Clock!Init
  BY SMT DEF Init

(* A step of the composition leaves the choice of the part alone and is a  *)
(* step of that part, or none.                                             *)
LEMMA PartStep ==
    ASSUME [Next]_vars
    PROVE  /\ part' = part
           /\ part = "tariffs" => [Pricing!Next]_(Pricing!vars)
           /\ part = "session" => [Sessions!Next]_(Sessions!vars)
           /\ part = "listener" => [Listening!Next]_(Listening!vars)
           /\ part = "editions" => [Speaking!Next]_(Speaking!vars)
           /\ part = "dispatch" => [Dispatching!Next]_(Dispatching!vars)
           /\ part = "command" => [Running!Next]_(Running!vars)
           /\ part = "clock" => [Clock!Next]_(Clock!vars)
  <1>1. CASE Next
    BY <1>1, SMT DEF Next
  <1>2. CASE UNCHANGED vars
    <2>1. /\ UNCHANGED <<part, x1, x2, x3, x4, x5, x6, x7, x8, x9>>
          /\ UNCHANGED <<x10, x11, x12, x13, x14, x15, x16, x17>>
      BY <1>2 DEF vars, from7, from8, from9, from10, from11, from12, from13, from14, from15,
                  from16, from17, from18
    <2>2. UNCHANGED Pricing!vars
      BY <2>1 DEF Pricing!vars, Pricing!server, Pricing!relay
    <2>3. UNCHANGED Sessions!vars
      BY <2>1 DEF Sessions!vars, Sessions!client, Sessions!link, Sessions!reqs, Sessions!server
    <2>4. UNCHANGED Listening!vars
      BY <2>1 DEF Listening!vars, Listening!requests, Listening!tasks, Listening!window,
                  Listening!watch
    <2>5. UNCHANGED Speaking!vars
      BY <2>1 DEF Speaking!vars, Speaking!settings
    <2>6. UNCHANGED Dispatching!vars
      BY <2>1 DEF Dispatching!vars, Dispatching!proxy, Dispatching!records
    <2>7. UNCHANGED Running!vars
      BY <2>1 DEF Running!vars, Running!asked, Running!progress, Running!work, Running!served
    <2>8. UNCHANGED Clock!vars
      BY <2>1 DEF Clock!vars
    <2> QED BY <2>1, <2>2, <2>3, <2>4, <2>5, <2>6, <2>7, <2>8
  <1> QED BY <1>1, <1>2

-----------------------------------------------------------------------------
(* Session, Listener and Editions. *)

(* A loadable certificate and trust store, and no session yet. *)
LEMMA SessionsInit == ASSUME Sessions!Init PROVE Sessions!IInv
  <1> DEFINE req == x7
  <1>1. \A r \in Requests : req[r].at = "idle"
    BY DEF Sessions!Init, Sessions!Idle
  <1>2. PICK c \in LoadableCerts, a \in LoadableCAs :
            x1 = [cert |-> c, ca |-> a] /\ x2 = [cert |-> c, ca |-> a, n |-> 0] /\ x3 = c
    BY DEF Sessions!Init
  <1>3. Sessions!Shape
    <2>1. x1 \in [cert : Certs, ca : CAs]
      BY <1>2, PartsAssumption
    <2>2. x12 \in Nat /\ x13 \in Nat /\ DOMAIN req = Requests
      BY DEF Sessions!Init
    <2>3. x11 \in BOOLEAN /\ x15 \in BOOLEAN
      BY Zenon DEF Sessions!Init
    <2> QED BY <2>1, <2>2, <2>3 DEF Sessions!Shape
  <1>4. Sessions!Agree /\ Sessions!Numbered /\ Sessions!Conforming
    BY <1>1, <1>2 DEF Sessions!Init, Sessions!Agree, Sessions!Numbered, Sessions!Conforming
  <1>5. Sessions!IdentityAgrees
    BY <1>1 DEF Sessions!Init, Sessions!IdentityAgrees
  <1> QED BY <1>3, <1>4, <1>5 DEF Sessions!IInv

(* An attempt takes the session that is there, or makes the next one of    *)
(* the LFDI in use.                                                        *)
LEMMA SessionsAttempt ==
    ASSUME Sessions!IInv, NEW r \in Requests, Sessions!Attempt(r) PROVE Sessions!IInv'
  <1> DEFINE config == x1  ssl == x2  lfdi == x3  session == x4  pool == x6  req == x7
             made == x12  failed == x15
  <1>1. /\ UNCHANGED <<x1, x2, x3, x6, x11, x13, x15, x16>>
        /\ req' = [req EXCEPT ![r] = [at |-> "connecting", id |-> session'.id,
                                      lfdi |-> session'.lfdi, ssl |-> ssl]]
        /\ IF session # None THEN UNCHANGED <<session, made>>
           ELSE made' = made + 1 /\ session' = [id |-> made + 1, lfdi |-> lfdi]
    BY DEF Sessions!Attempt, Sessions!GetSession, Sessions!client, Sessions!server
  <1>2. made \in Nat /\ DOMAIN req = Requests
    BY DEF Sessions!IInv, Sessions!Shape
  <1>3. /\ made' \in Nat /\ made <= made' /\ session'.id \in 1..made'
        /\ ~failed => session'.lfdi = ssl.cert
    BY <1>1, <1>2 DEF Sessions!IInv, Sessions!Agree, Sessions!Numbered
  <1>4. /\ req'[r].at = "connecting" /\ req'[r].id = session'.id
        /\ req'[r].lfdi = session'.lfdi /\ req'[r].ssl = ssl
        /\ DOMAIN req' = Requests /\ \A q \in Requests \ {r} : req'[q] = req[q]
    BY <1>1, <1>2
  <1>5. Sessions!Shape' /\ Sessions!Conforming'
    BY <1>1, <1>3, <1>4 DEF Sessions!IInv, Sessions!Shape, Sessions!Conforming
  <1>6. Sessions!Agree'
    BY <1>1, <1>3 DEF Sessions!IInv, Sessions!Agree
  <1>7. Sessions!Numbered'
    BY <1>1, <1>2, <1>3, <1>4 DEF Sessions!IInv, Sessions!Numbered
  <1>8. Sessions!IdentityAgrees'
    <2>1. ASSUME NEW q \in Requests, req'[q].at # "idle"
          PROVE  /\ ~failed => req'[q].lfdi = req'[q].ssl.cert
                 /\ session' # None /\ req'[q].id = session'.id => req'[q].ssl = ssl
      <3>1. CASE q = r
        BY <3>1, <1>3, <1>4
      <3>2. CASE q # r
        <4>1. /\ req'[q] = req[q] /\ req[q].at # "idle" /\ req[q].id \in 0..made
              /\ ~failed => req[q].lfdi = req[q].ssl.cert
              /\ session # None /\ req[q].id = session.id => req[q].ssl = ssl
          BY <2>1, <3>2, <1>4 DEF Sessions!IInv, Sessions!Numbered, Sessions!IdentityAgrees
        <4>2. CASE session # None
          BY <4>1, <4>2, <1>1
        <4>3. CASE session = None
          BY <4>1, <4>3, <1>1, <1>2
        <4> QED BY <4>2, <4>3
      <3> QED BY <3>1, <3>2
    <2> QED BY <2>1, <1>1 DEF Sessions!IInv, Sessions!IdentityAgrees
  <1> QED BY <1>5, <1>6, <1>7, <1>8 DEF Sessions!IInv

(* A request goes on or ends; connections made are ones whose chain        *)
(* conformed, and answers come over those.                                 *)
LEMMA SessionsRequest ==
    ASSUME Sessions!IInv, NEW r \in Requests,
           Sessions!Reuse(r) \/ Sessions!Connect(r) \/ Sessions!Answered(r) \/ Sessions!Fails(r)
    PROVE  Sessions!IInv'
  <1> DEFINE pool == x6  req == x7  accepted == x16
  <1>1. UNCHANGED <<x1, x2, x3, x4, x11, x12, x13, x15>>
    BY DEF Sessions!Reuse, Sessions!Connect, Sessions!Answered, Sessions!Fails, Sessions!client,
           Sessions!link, Sessions!server
  <1>2. req' \in {[req EXCEPT ![r].at = "sent"], [req EXCEPT ![r] = Sessions!Idle]}
    BY DEF Sessions!Reuse, Sessions!Connect, Sessions!Answered, Sessions!Fails
  <1>3. [req EXCEPT ![r].at = "sent"] = req' => req[r].at # "idle" \/ req' = [req EXCEPT ![r] = Sessions!Idle]
    BY DEF Sessions!Reuse, Sessions!Connect, Sessions!Answered, Sessions!Fails
  <1>4. DOMAIN req = Requests /\ x11 \in BOOLEAN
    BY DEF Sessions!IInv, Sessions!Shape
  <1>5. DOMAIN req' = Requests
    BY <1>2, <1>4
  <1>6. ASSUME NEW q \in Requests, req'[q].at # "idle"
        PROVE  /\ req[q].at # "idle" /\ req'[q].id = req[q].id /\ req'[q].lfdi = req[q].lfdi
               /\ req'[q].ssl = req[q].ssl
    <2>1. CASE q # r
      BY <1>2, <1>4, <1>6, <2>1
    <2>2. CASE q = r
      <3>1. req' # [req EXCEPT ![r] = Sessions!Idle]
        BY <1>4, <1>6, <2>2 DEF Sessions!Idle
      <3>2. req' = [req EXCEPT ![r].at = "sent"]
        BY <1>2, <3>1
      <3>3. req'[r] = [req[r] EXCEPT !.at = "sent"]
        BY <3>2, <1>4
      <3> QED BY <3>1, <3>2, <3>3, <1>3, <2>2
    <2> QED BY <2>1, <2>2
  <1>7. Sessions!Conforming' /\ (FALSE \in accepted' => FALSE \in accepted)
    <2>1. CASE Sessions!Connect(r)
      <3>1. /\ x11 /\ accepted' = accepted
            /\ pool' = pool \cup {[id |-> req[r].id, ssl |-> req[r].ssl, chain |-> x11]}
        BY <2>1 DEF Sessions!Connect, Sessions!Audit
      <3>2. x11 = TRUE
        BY <3>1, <1>4
      <3>3. PICK new : new = [id |-> req[r].id, ssl |-> req[r].ssl, chain |-> x11]
        OBVIOUS
      <3>4. new.chain = x11
        BY <3>3
      <3>5. new.chain = TRUE /\ pool' = pool \cup {new}
        BY <3>1, <3>2, <3>3, <3>4, Zenon
      <3>6. \A c \in pool : c.chain = TRUE
        BY DEF Sessions!IInv, Sessions!Conforming
      <3> QED BY <3>1, <3>5, <3>6, Zenon DEF Sessions!Conforming
    <2>2. CASE Sessions!Answered(r)
      <3>1. PICK c \in Sessions!PooledFor(req[r]) : accepted' = accepted \cup {c.chain} /\ pool' = pool
        BY <2>2 DEF Sessions!Answered, Sessions!link
      <3>2. c \in pool /\ c.chain = TRUE
        BY <3>1 DEF Sessions!PooledFor, Sessions!IInv, Sessions!Conforming
      <3>3. c.chain # FALSE
        BY <3>2
      <3> QED BY <3>1, <3>3 DEF Sessions!IInv, Sessions!Conforming
    <2>3. CASE Sessions!Reuse(r) \/ Sessions!Fails(r)
      BY <2>3 DEF Sessions!Reuse, Sessions!Fails, Sessions!link, Sessions!IInv, Sessions!Conforming
    <2> QED BY <2>1, <2>2, <2>3
  <1>8. Sessions!Shape' /\ Sessions!Agree'
    BY <1>1, <1>5 DEF Sessions!IInv, Sessions!Shape, Sessions!Agree
  <1>9. Sessions!Numbered'
    BY <1>1, <1>6 DEF Sessions!IInv, Sessions!Numbered
  <1>10. Sessions!IdentityAgrees'
    BY <1>1, <1>6, <1>7 DEF Sessions!IInv, Sessions!IdentityAgrees
  <1> QED BY <1>7, <1>8, <1>9, <1>10 DEF Sessions!IInv

(* A swap or a reset: a context is replaced only together with the session *)
(* made under it.                                                          *)
LEMMA SessionsUpdate ==
    ASSUME Sessions!IInv,
           \/ \E ca \in CAs : Sessions!UpdateCaTrust(ca)
           \/ \E cert \in Certs : Sessions!UpdateClientCert(cert)
           \/ Sessions!ResetTls
    PROVE  Sessions!IInv'
  <1> DEFINE config == x1  ssl == x2  lfdi == x3  session == x4  pool == x6  req == x7
             made == x12  updates == x13  failed == x15
  <1>1. UNCHANGED <<x7, x11, x12, x16>> /\ updates' = updates + 1
    BY DEF Sessions!UpdateCaTrust, Sessions!UpdateClientCert, Sessions!ResetTls, Sessions!Rebuild,
           Sessions!reqs, Sessions!server
  <1>2. config \in [cert : Certs, ca : CAs] /\ failed \in BOOLEAN /\ updates \in Nat
    BY DEF Sessions!IInv, Sessions!Shape
  <1>3. pool' \subseteq pool
    BY DEF Sessions!UpdateCaTrust, Sessions!UpdateClientCert, Sessions!ResetTls, Sessions!Closed
  <1>4. /\ config' \in [cert : Certs, ca : CAs] /\ failed' \in BOOLEAN
        /\ ~failed' => ~failed /\ config'.cert = ssl'.cert /\ lfdi' = ssl'.cert
        /\ session' = None \/ (session' = session /\ ssl' = ssl /\ (~failed' => lfdi' = lfdi))
    <2>1. ASSUME NEW ca \in CAs, Sessions!UpdateCaTrust(ca) PROVE <1>4
      <3>1. PICK cfg : cfg = [config EXCEPT !.ca = ca]
        OBVIOUS
      <3>2. cfg \in [cert : Certs, ca : CAs] /\ cfg.cert = config.cert
        BY <3>1, <1>2
      <3>3. /\ config' = cfg /\ lfdi' = lfdi
            /\ ssl' = (IF Sessions!Loads(cfg)
                       THEN [cert |-> cfg.cert, ca |-> cfg.ca, n |-> updates + 1] ELSE ssl)
            /\ failed' = (failed \/ ~Sessions!Loads(cfg))
            /\ IF Sessions!Loads(cfg) THEN session' = None ELSE session' = session
        BY <2>1, <3>1 DEF Sessions!UpdateCaTrust, Sessions!Rebuild, Sessions!Closed
      <3>4. CASE Sessions!Loads(cfg)
        BY <3>2, <3>3, <3>4, <1>2 DEF Sessions!IInv, Sessions!Agree
      <3>5. CASE ~Sessions!Loads(cfg)
        BY <3>2, <3>3, <3>5, <1>2
      <3> QED BY <3>4, <3>5
    <2>2. ASSUME NEW cert \in Certs, Sessions!UpdateClientCert(cert) PROVE <1>4
      <3>1. PICK cfg : cfg = [config EXCEPT !.cert = cert]
        OBVIOUS
      <3>2. cfg \in [cert : Certs, ca : CAs]
        BY <3>1, <1>2
      <3>3. /\ config' = cfg
            /\ ssl' = (IF Sessions!Loads(cfg)
                       THEN [cert |-> cfg.cert, ca |-> cfg.ca, n |-> updates + 1] ELSE ssl)
            /\ failed' = (failed \/ ~Sessions!Loads(cfg))
            /\ IF Sessions!Loads(cfg) THEN lfdi' = cfg.cert /\ session' = None
               ELSE lfdi' = lfdi /\ session' = session
        BY <2>2, <3>1 DEF Sessions!UpdateClientCert, Sessions!Rebuild, Sessions!Swapped
      <3>4. CASE Sessions!Loads(cfg)
        BY <3>2, <3>3, <3>4, <1>2
      <3>5. CASE ~Sessions!Loads(cfg)
        BY <3>2, <3>3, <3>5, <1>2
      <3> QED BY <3>4, <3>5
    <2>3. CASE Sessions!ResetTls
      BY <2>3, <1>2 DEF Sessions!ResetTls, Sessions!Closed, Sessions!IInv, Sessions!Agree
    <2> QED BY <2>1, <2>2, <2>3
  <1>5. Sessions!Shape'
    BY <1>1, <1>2, <1>4 DEF Sessions!IInv, Sessions!Shape
  <1>6. Sessions!Agree'
    BY <1>4 DEF Sessions!IInv, Sessions!Agree
  <1>7. Sessions!Numbered' /\ Sessions!Conforming'
    BY <1>1, <1>3, <1>4 DEF Sessions!IInv, Sessions!Numbered, Sessions!Conforming
  <1>8. Sessions!IdentityAgrees'
    BY <1>1, <1>4 DEF Sessions!IInv, Sessions!IdentityAgrees
  <1> QED BY <1>5, <1>6, <1>7, <1>8 DEF Sessions!IInv

(* Every step of the part keeps its invariant. *)
LEMMA SessionsStep ==
    ASSUME Sessions!IInv, [Sessions!Next]_(Sessions!vars) PROVE Sessions!IInv'
  <1>1. ASSUME /\ UNCHANGED <<x1, x2, x3, x4, x7, x12, x13, x15, x16>>
               /\ x6' \subseteq x6 /\ x11' \in BOOLEAN
        PROVE  Sessions!IInv'
    BY <1>1 DEF Sessions!IInv, Sessions!Shape, Sessions!Agree, Sessions!Numbered,
                Sessions!Conforming, Sessions!IdentityAgrees
  <1>2. x11 \in BOOLEAN
    BY DEF Sessions!IInv, Sessions!Shape
  <1>3. CASE Sessions!ResetDone \/ UNCHANGED Sessions!vars
    BY <1>1, <1>2, <1>3 DEF Sessions!ResetDone, Sessions!vars, Sessions!client, Sessions!link,
                            Sessions!reqs, Sessions!server
  <1>4. ASSUME NEW id \in x5, Sessions!CloseOrphan(id) PROVE Sessions!IInv'
    BY <1>1, <1>2, <1>4 DEF Sessions!CloseOrphan, Sessions!client, Sessions!reqs, Sessions!server
  <1>5. CASE Sessions!ChainChanges
    BY <1>1, <1>2, <1>5 DEF Sessions!ChainChanges, Sessions!client, Sessions!link, Sessions!reqs
  <1>6. CASE Sessions!Next
    BY <1>3, <1>4, <1>5, <1>6, SessionsAttempt, SessionsRequest, SessionsUpdate DEF Sessions!Next
  <1> QED BY <1>3, <1>6

(* No request yet, and no simulation. *)
LEMMA ListeningInit == ASSUME Listening!Init PROVE Listening!IInv
  <1> DEFINE status == x4  drained == x9  noted == x12  watched == x13
  <1>1. /\ x1 \in [Notes -> {"off", "reading", "answered"}] /\ status \in [Notes -> Nat]
        /\ x5 = {} /\ x6 = {} /\ x15 = {} /\ \A n \in Notes : x1[n] = "off"
    BY DEF Listening!Init
  <1>2. /\ noted \in [Notes -> BOOLEAN] /\ watched \in [Notes -> BOOLEAN] /\ x11 \in BOOLEAN
        /\ \A n \in Notes : ~watched[n]
    BY DEF Listening!Init
  <1>3. ~drained /\ x8 = None
    BY DEF Listening!Init
  <1>4. Listening!Shape /\ Listening!Waits
    BY <1>1, <1>2, <1>3 DEF Listening!Shape, Listening!Waits
  <1>5. Listening!NotificationsTrue
    BY <1>1, <1>2, <1>3 DEF Listening!NotificationsTrue, Listening!Told
  <1>6. \A n \in Notes : Listening!Unanswered(n) /\ Listening!Watching(n)
    BY <1>1, <1>2 DEF Listening!Unanswered, Listening!Watching, Listening!Of
  <1> QED BY <1>4, <1>5, <1>6 DEF Listening!IInv

(* The step that answers n with code, starts its handler or not, and tells *)
(* those who watched of it.                                                *)
LEMMA ListeningAnswers ==
    ASSUME Listening!IInv, NEW n \in Notes, NEW code \in {201, 400, 401}, NEW noticed \in BOOLEAN,
           NEW anomaly \in {None, "rejected", "unreadable", "dropped"},
           NEW outcome \in {"accepted", "refused"},
           x1[n] # "answered", Listening!Answers(n, code),
           Listening!Reported(n, noticed, outcome, anomaly, code),
           x12' \in [Notes -> BOOLEAN], x13' \in [Notes -> BOOLEAN],
           \A m \in Notes \ {n} : x12'[m] = x12[m] /\ x13'[m] = x13[m],
           x13'[n] => noticed /\ x11,
           UNCHANGED <<x7, x8, x9, x11>>,
           x6' = (IF anomaly = None THEN x6 \cup {n} ELSE x6),
           x5' = (IF anomaly = None THEN x5 \cup {n} ELSE x5),
           anomaly = None => ~x7 /\ code = 201,
           (outcome = "refused") = (code = 401),
           (code = 201) = (anomaly \in {None, "dropped"})
    PROVE  Listening!IInv'
  <1> DEFINE at == x1  status == x4  running == x5  begun == x6  observed == x11  watched == x13
             records == x15
  <1>1. /\ at \in [Notes -> {"off", "reading", "answered"}] /\ status \in [Notes -> Nat]
        /\ running \subseteq begun /\ begun \subseteq Notes
        /\ n \notin begun /\ {s \in records : s.n = n} = {}
    BY DEF Listening!IInv, Listening!Shape, Listening!Unanswered, Listening!Of
  <1>2. at' = [at EXCEPT ![n] = "answered"] /\ status' = [status EXCEPT ![n] = code]
    BY DEF Listening!Answers
  <1>3. /\ at'[n] = "answered" /\ status'[n] = code
        /\ \A m \in Notes \ {n} : at'[m] = at[m] /\ status'[m] = status[m]
    BY <1>1, <1>2
  <1>4. PICK r : r = [n |-> n, outcome |-> outcome, anomaly |-> anomaly, status |-> code]
    OBVIOUS
  <1>5. r.n = n /\ r.outcome = outcome /\ r.anomaly = anomaly /\ r.status = code
    BY <1>4
  <1>6. records' = records \cup (IF noticed /\ observed THEN {r} ELSE {})
    BY <1>4 DEF Listening!Reported
  <1>7. \A m \in Notes \ {n} : {s \in records' : s.n = m} = {s \in records : s.n = m}
    BY <1>5, <1>6
  <1>8. Listening!Shape'
    <2>1. at' \in [Notes -> {"off", "reading", "answered"}] /\ status' \in [Notes -> Nat]
      BY <1>1, <1>2
    <2>2. running' \subseteq begun' /\ begun' \subseteq Notes
      BY <1>1
    <2>3. x11' \in BOOLEAN
      BY DEF Listening!IInv, Listening!Shape
    <2> QED BY <2>1, <2>2, <2>3 DEF Listening!Shape
  <1>9. Listening!Waits'
    BY DEF Listening!IInv, Listening!Waits
  <1>10. ASSUME NEW m \in Notes PROVE Listening!Unanswered(m)' /\ Listening!Watching(m)'
    <2>1. CASE m = n
      BY <2>1, <1>3 DEF Listening!Unanswered, Listening!Watching
    <2>2. CASE m # n
      <3>1. Listening!Unanswered(m) /\ Listening!Watching(m)
        BY DEF Listening!IInv
      <3>2. m \in begun' <=> m \in begun
        BY <2>2
      <3>3. Listening!Unanswered(m)'
        BY <3>1, <3>2, <2>2, <1>3, <1>7 DEF Listening!Unanswered, Listening!Of
      <3>4. Listening!Watching(m)'
        BY <3>1, <2>2, <1>3 DEF Listening!Watching
      <3> QED BY <3>3, <3>4
    <2> QED BY <2>1, <2>2
  <1>11. \A m \in begun' : status'[m] = 201
    BY <1>1, <1>3 DEF Listening!IInv, Listening!NotificationsTrue
  <1>12. x7' /\ x9' => running' = {}
    BY DEF Listening!IInv, Listening!NotificationsTrue
  <1>13. ASSUME NEW m \in Notes PROVE Listening!Told(m)'
    <2>1. CASE m = n
      <3>1. SUFFICES ASSUME watched'[n] PROVE Listening!Told(n)'
        BY <2>1 DEF Listening!Told
      <3>2. {s \in records' : s.n = n} = {r}
        BY <3>1, <1>1, <1>5, <1>6
      <3>3. (r.anomaly = None) = (n \in begun')
        BY <1>1, <1>5
      <3>4. /\ r.status = status'[n] /\ (r.outcome = "refused") = (status'[n] = 401)
            /\ (status'[n] = 201) = (r.anomaly \in {None, "dropped"})
        BY <1>3, <1>5
      <3> QED BY <3>2, <3>3, <3>4 DEF Listening!Told, Listening!Of
    <2>2. CASE m # n
      <3>1. Listening!Told(m)
        BY DEF Listening!IInv, Listening!NotificationsTrue
      <3>2. m \in begun' <=> m \in begun
        BY <2>2
      <3> QED BY <3>1, <3>2, <2>2, <1>3, <1>7 DEF Listening!Told, Listening!Of
    <2> QED BY <2>1, <2>2
  <1>14. Listening!NotificationsTrue'
    BY <1>11, <1>12, <1>13 DEF Listening!NotificationsTrue
  <1> QED BY <1>8, <1>9, <1>10, <1>14 DEF Listening!IInv

(* A notification comes in: refused at once, or read. *)
LEMMA ListeningArrives ==
    ASSUME Listening!IInv, NEW n \in Notes, Listening!Arrives(n) PROVE Listening!IInv'
  <1> DEFINE at == x1  running == x5  begun == x6  observed == x11  noted == x12  watched == x13
  <1>1. /\ at[n] = "off" /\ noted' = [noted EXCEPT ![n] = observed]
        /\ watched' = [watched EXCEPT ![n] = observed] /\ UNCHANGED <<x5, x6, x7, x8, x9, x11>>
    BY DEF Listening!Arrives, Listening!tasks, Listening!window
  <1>2. /\ noted \in [Notes -> BOOLEAN] /\ watched \in [Notes -> BOOLEAN] /\ observed \in BOOLEAN
        /\ at \in [Notes -> {"off", "reading", "answered"}]
    BY DEF Listening!IInv, Listening!Shape
  <1>3. /\ noted' \in [Notes -> BOOLEAN] /\ watched' \in [Notes -> BOOLEAN]
        /\ noted'[n] = observed /\ watched'[n] = observed
        /\ \A m \in Notes \ {n} : noted'[m] = noted[m] /\ watched'[m] = watched[m]
    BY <1>1, <1>2
  <1>4. CASE Listening!Refuses(n)
    <2>1. Listening!Answers(n, 401) /\ Listening!Reported(n, observed, "refused", "rejected", 401)
      BY <1>4 DEF Listening!Arrives
    <2>2. None \notin {"rejected", "unreadable", "dropped"}
      BY PartsAssumption
    <2> QED BY <2>1, <2>2, <1>1, <1>2, <1>3, ListeningAnswers
  <1>5. CASE ~Listening!Refuses(n)
    <2>1. at' = [at EXCEPT ![n] = "reading"] /\ UNCHANGED <<x4, x15>>
      BY <1>5 DEF Listening!Arrives
    <2>2. at'[n] = "reading" /\ \A m \in Notes \ {n} : at'[m] = at[m]
      BY <2>1, <1>2
    <2>3. Listening!Shape'
      BY <1>1, <1>2, <1>3, <2>1 DEF Listening!IInv, Listening!Shape
    <2>4. Listening!Waits'
      BY <1>1 DEF Listening!IInv, Listening!Waits
    <2>5. ASSUME NEW m \in Notes
          PROVE  Listening!Unanswered(m)' /\ Listening!Watching(m)' /\ Listening!Told(m)'
      <3>1. CASE m = n
        <4>1. n \notin begun /\ Listening!Of(n) = {}
          BY <1>1 DEF Listening!IInv, Listening!Unanswered
        <4> QED BY <3>1, <4>1, <1>1, <1>3, <2>1, <2>2 DEF Listening!Unanswered, Listening!Watching,
                    Listening!Told, Listening!Of
      <3>2. CASE m # n
        <4>1. Listening!Unanswered(m) /\ Listening!Watching(m) /\ Listening!Told(m)
          BY DEF Listening!IInv, Listening!NotificationsTrue
        <4> QED BY <3>2, <4>1, <1>1, <1>3, <2>1, <2>2 DEF Listening!Unanswered, Listening!Watching,
                    Listening!Told, Listening!Of
      <3> QED BY <3>1, <3>2
    <2>6. Listening!NotificationsTrue'
      BY <1>1, <2>1, <2>5 DEF Listening!IInv, Listening!NotificationsTrue
    <2> QED BY <2>3, <2>4, <2>5, <2>6 DEF Listening!IInv
  <1> QED BY <1>4, <1>5

(* It was read: malformed, acted on, or dropped in a simulation. *)
LEMMA ListeningRead ==
    ASSUME Listening!IInv, NEW n \in Notes, Listening!Read(n) PROVE Listening!IInv'
  <1> DEFINE at == x1  body == x3  suspended == x7  observed == x11  noted == x12  watched == x13
  <1>1. at[n] = "reading" /\ UNCHANGED <<x7, x8, x9, x11, x12, x13>>
    BY DEF Listening!Read, Listening!window
  <1>2. /\ noted \in [Notes -> BOOLEAN] /\ watched \in [Notes -> BOOLEAN]
        /\ watched[n] => noted[n] /\ observed
    BY <1>1 DEF Listening!IInv, Listening!Shape, Listening!Watching
  <1>3. noted[n] \in BOOLEAN /\ None \notin {"rejected", "unreadable", "dropped"}
    BY <1>2, PartsAssumption
  <1>4. CASE body[n] # "valid"
    <2>1. PICK a \in {"unreadable", "rejected"} :
              Listening!Answers(n, 400) /\ Listening!Reported(n, noted[n], "accepted", a, 400)
      BY <1>4 DEF Listening!Read
    <2>2. UNCHANGED <<x5, x6>>
      BY <1>4 DEF Listening!Read, Listening!tasks
    <2> QED BY <2>1, <2>2, <1>1, <1>2, <1>3, ListeningAnswers
  <1>5. CASE body[n] = "valid" /\ ~suspended
    <2>1. /\ Listening!Answers(n, 201) /\ Listening!Reported(n, noted[n], "accepted", None, 201)
          /\ x5' = x5 \cup {n} /\ x6' = x6 \cup {n}
      BY <1>5 DEF Listening!Read, Listening!Acts
    <2> QED BY <2>1, <1>1, <1>2, <1>3, <1>5, ListeningAnswers
  <1>6. CASE body[n] = "valid" /\ suspended
    <2>1. /\ Listening!Answers(n, 201) /\ UNCHANGED <<x5, x6>>
          /\ Listening!Reported(n, noted[n], "accepted", "dropped", 201)
      BY <1>6 DEF Listening!Read, Listening!Acts, Listening!AcceptedAnswer, Listening!tasks
    <2> QED BY <2>1, <1>1, <1>2, <1>3, ListeningAnswers
  <1> QED BY <1>4, <1>5, <1>6

(* A handler ends, a simulation begins, waits, gives up or is over. *)
LEMMA ListeningWindow ==
    ASSUME Listening!IInv,
           \/ \E n \in Notes : Listening!Handled(n)
           \/ Listening!Suspend \/ Listening!Drained \/ Listening!DrainTimesOut \/ Listening!Resume
           \/ UNCHANGED Listening!vars
    PROVE  Listening!IInv'
  <1> DEFINE running == x5  suspended == x7  draining == x8  drained == x9
  <1>1. UNCHANGED <<x1, x4, x6, x11, x12, x13, x15>> /\ running' \subseteq running
    BY DEF Listening!Handled, Listening!Suspend, Listening!Drained, Listening!DrainTimesOut,
           Listening!Resume, Listening!vars, Listening!requests, Listening!tasks,
           Listening!window, Listening!watch
  <1>2. Listening!Shape'
    BY <1>1 DEF Listening!IInv, Listening!Shape
  <1>3. \A n \in Notes : Listening!Unanswered(n)' /\ Listening!Watching(n)' /\ Listening!Told(n)'
    BY <1>1 DEF Listening!IInv, Listening!NotificationsTrue, Listening!Unanswered,
                Listening!Watching, Listening!Told, Listening!Of
  <1>4. Listening!Waits' /\ (suspended' /\ drained' => running' = {})
    <2> USE DEF Listening!IInv, Listening!NotificationsTrue, Listening!Waits
    <2>1. ASSUME NEW n \in Notes, Listening!Handled(n) PROVE <1>4
      BY <2>1 DEF Listening!Handled, Listening!window
    <2>2. CASE Listening!Suspend
      BY <2>2 DEF Listening!Suspend, Listening!tasks
    <2>3. CASE Listening!Drained
      BY <2>3 DEF Listening!Drained, Listening!tasks
    <2>4. CASE Listening!DrainTimesOut
      BY <2>4 DEF Listening!DrainTimesOut, Listening!tasks
    <2>5. CASE Listening!Resume
      BY <2>5 DEF Listening!Resume, Listening!tasks
    <2>6. CASE UNCHANGED Listening!vars
      BY <2>6 DEF Listening!vars, Listening!tasks, Listening!window
    <2> QED BY <2>1, <2>2, <2>3, <2>4, <2>5, <2>6
  <1>5. Listening!NotificationsTrue'
    BY <1>1, <1>3, <1>4 DEF Listening!IInv, Listening!NotificationsTrue
  <1> QED BY <1>2, <1>3, <1>4, <1>5 DEF Listening!IInv

(* Observers that come or go watch nothing that is under way. *)
LEMMA ListeningAttach == ASSUME Listening!IInv, Listening!Attach PROVE Listening!IInv'
  <1> DEFINE at == x1  observed == x11  watched == x13
  <1>1. /\ UNCHANGED <<x1, x4, x5, x6, x7, x8, x9, x12, x15>> /\ observed' = ~observed
        /\ watched' = [n \in Notes |-> watched[n] /\ at[n] = "answered"]
    BY DEF Listening!Attach, Listening!requests, Listening!tasks, Listening!window
  <1>2. watched' \in [Notes -> BOOLEAN] /\ observed' \in BOOLEAN
    BY <1>1
  <1>3. \A n \in Notes : watched'[n] => watched[n] /\ at[n] = "answered"
    BY <1>1
  <1>4. Listening!Shape' /\ Listening!Waits'
    BY <1>1, <1>2 DEF Listening!IInv, Listening!Shape, Listening!Waits
  <1>5. \A n \in Notes : Listening!Unanswered(n)' /\ Listening!Watching(n)'
    BY <1>1, <1>3 DEF Listening!IInv, Listening!Unanswered, Listening!Watching, Listening!Of
  <1>6. \A n \in Notes : Listening!Told(n)'
    BY <1>1, <1>3 DEF Listening!IInv, Listening!NotificationsTrue, Listening!Told, Listening!Of
  <1>7. Listening!NotificationsTrue'
    BY <1>1, <1>6 DEF Listening!IInv, Listening!NotificationsTrue
  <1> QED BY <1>4, <1>5, <1>7 DEF Listening!IInv

(* Every step of the part keeps its invariant. *)
LEMMA ListeningStep ==
    ASSUME Listening!IInv, [Listening!Next]_(Listening!vars) PROVE Listening!IInv'
  BY ListeningArrives, ListeningRead, ListeningWindow, ListeningAttach DEF Listening!Next

(* What restrict leaves is a body, and all of it is required or permitted. *)
LEMMA SpeakingRestrict ==
    ASSUME NEW m \in Speaking!Bodies
    PROVE  /\ Speaking!Restrict(m) \in Speaking!Bodies
           /\ \A i \in Speaking!Restrict(m) : Items[i].required \/ Speaking!Permits(i)
  BY DEF Speaking!Restrict, Speaking!Bodies, Speaking!Whole

(* Nothing read and nothing built. *)
LEMMA SpeakingInit == ASSUME Speaking!Init PROVE Speaking!IInv
  BY PartsAssumption DEF Speaking!Init, Speaking!IInv, Speaking!Shape, Speaking!BaseRight,
        Speaking!Edition, Speaking!Editions2030, Speaking!SpeaksEdition

(* Every step of the part keeps its invariant. *)
LEMMA SpeakingStep ==
    ASSUME Speaking!IInv, [Speaking!Next]_(Speaking!vars) PROVE Speaking!IInv'
  <1> DEFINE server == x1  features == x4  base == x5  known == x6  code == x7  body == x8  aware == x9
  <1>1. Speaking!ReadDcap => (known' => x3 \in {None, server})
    BY DEF Speaking!ReadDcap
  <1>2. ASSUME NEW b, Speaking!Send(b), ~x10, aware => Speaking!Fits(body, code) PROVE ~x10'
    BY <1>2 DEF Speaking!Send
  <1>3. ASSUME NEW e, NEW d, Speaking!ServerChanges(e, d) PROVE ~aware' /\ (known' => x3 = e)
    BY <1>3 DEF Speaking!ServerChanges
  <1> USE PartsAssumption DEF Speaking!IInv, Speaking!Shape, Speaking!BaseRight, Speaking!Edition,
          Speaking!Editions2030, Speaking!SpeaksEdition, Speaking!settings
  <1>4. CASE UNCHANGED Speaking!vars
    BY <1>4 DEF Speaking!vars, Speaking!Fits
  <1>5. CASE Speaking!ReadDcap
    <2>1. UNCHANGED <<x1, x2, x3, x4, x7, x8, x9, x10>> /\ base' = Speaking!Resolve(x2)
      BY <1>5 DEF Speaking!ReadDcap
    <2>2. known' => x3 \in {None, server}
      BY <1>5, <1>1
    <2>3. Speaking!Shape' /\ Speaking!BaseRight'
      BY <2>1, <2>2 DEF Speaking!Resolve, Speaking!BaseFromSchemaVer
    <2>4. body' # None /\ aware' => Speaking!Fits(body, code)'
      BY <2>1 DEF Speaking!Fits
    <2> QED BY <2>1, <2>3, <2>4
  <1>6. ASSUME NEW b \in BOOLEAN, Speaking!Send(b) PROVE Speaking!IInv'
    <2>1. UNCHANGED <<x1, x2, x3, x4, x5, x6>> /\ body # None
      BY <1>6 DEF Speaking!Send
    <2>2. ~x10'
      BY <1>6, <1>2, <2>1
    <2>3. CASE b
      <3>1. UNCHANGED <<x7, x8, x9>>
        BY <1>6, <2>3 DEF Speaking!Send
      <3> QED BY <2>1, <2>2, <3>1 DEF Speaking!Fits
    <2>4. CASE ~b
      <3>1. body' = None
        BY <1>6, <2>4 DEF Speaking!Send
      <3> QED BY <2>1, <2>2, <3>1
    <2> QED BY <2>3, <2>4
  <1>7. ASSUME NEW m \in Speaking!Bodies, NEW c \in {0, 1, 251}, Speaking!Built(m, c)
        PROVE  Speaking!IInv'
    <2>1. /\ body' = Speaking!Restrict(m) /\ code' = Speaking!WireResponseCode(c) /\ aware' = known
          /\ UNCHANGED <<x1, x2, x3, x4, x5, x6, x10>>
      BY <1>7 DEF Speaking!Built
    <2>2. known /\ server = 2018 => Speaking!Fits(body', code')
      <3>1. SUFFICES ASSUME known, server = 2018 PROVE Speaking!Fits(body', code')
        OBVIOUS
      <3>2. Speaking!Edition = 2018
        BY <3>1
      <3>3. code' # 251
        BY <2>1, <3>2 DEF Speaking!WireResponseCode
      <3>4. \A i \in body' : ~Items[i].new \/ Items[i].feature \in features \/ Items[i].required
        BY <2>1, <3>2, SpeakingRestrict DEF Speaking!Permits
      <3>5. body' \in Speaking!Bodies
        BY <2>1, SpeakingRestrict
      <3> QED BY <3>3, <3>4, <3>5 DEF Speaking!Fits
    <2> QED BY <2>1, <2>2 DEF Speaking!Fits
  <1>8. ASSUME NEW e \in {2018, 2023}, NEW d \in {"none", "old", "new"}, Speaking!ServerChanges(e, d)
        PROVE  Speaking!IInv'
    <2>1. /\ UNCHANGED <<x3, x4, x5, x7, x8, x10>> /\ server' = e /\ x2' = d
          /\ d \in (IF e = 2023 THEN {"new", "none"} ELSE {"old", "none"})
      BY <1>8 DEF Speaking!ServerChanges
    <2>2. ~aware' /\ (known' => x3 = e)
      BY <1>8, <1>3
    <2> QED BY <2>1, <2>2
  <1> QED BY <1>4, <1>5, <1>6, <1>7, <1>8 DEF Speaking!Next, Speaking!Serialize

(* For any requests, certificates and trust stores, notifications and      *)
(* items, however many swaps, simulations and servers there are: requests  *)
(* go out under the identity they claim, over connections whose chain      *)
(* conformed (Session); notifications are answered, acted on and reported  *)
(* alike (Listener); bodies hold what the server's edition knows           *)
(* (Editions).                                                             *)
THEOREM ExchangesRight == Spec => []ExchangesAgree
  <1> DEFINE Inv == /\ part = "session" => Sessions!IInv
                    /\ part = "listener" => Listening!IInv
                    /\ part = "editions" => Speaking!IInv
  <1>1. Init => Inv
    BY PartInit, SessionsInit, ListeningInit, SpeakingInit
  <1>2. Inv /\ [Next]_vars => Inv'
    BY PartStep, SessionsStep, ListeningStep, SpeakingStep
  <1>3. Inv => ExchangesAgree
    BY DEF ExchangesAgree, Sessions!IInv, Listening!IInv, Speaking!IInv
  <1> QED BY <1>1, <1>2, <1>3, PTL DEF Spec

-----------------------------------------------------------------------------
(* Dispatch. *)

(* The part starts with nothing written and nothing kept. *)
LEMMA DispatchInit == ASSUME Dispatching!Init PROVE Dispatching!IInv
  BY DEF Dispatching!Init, Dispatching!IInv, Dispatching!HistoryIsDevice,
         Dispatching!LooseUnseen

(* A write that is kept as applied has reached the device in its step, and *)
(* from then on only the cancelled writes that still run may overtake it.  *)
LEMMA DispatchWrite ==
    ASSUME Dispatching!IInv,
           NEW c \in Dispatching!Callers, NEW ok \in BOOLEAN, NEW reached \in BOOLEAN,
           Dispatching!Write(c, ok, reached)
    PROVE  Dispatching!IInv'
  <1> DEFINE device == x10  history == x11  loose == x16  unseen == x17  m == Head(x2[c])
  <1>1. /\ ok => reached
        /\ device' = IF reached THEN [device EXCEPT ![m] = c] ELSE device
        /\ history' = [history EXCEPT ![m] =
                          [by |-> c, outcome |-> IF ok THEN "applied" ELSE "failed"]]
        /\ unseen' = IF ok THEN [unseen EXCEPT ![m] = {w[1] : w \in Dispatching!Loose(m)}]
                     ELSE unseen
        /\ loose' = loose
    BY DEF Dispatching!Write, Dispatching!KeepWrite
  <1> HIDE DEF m
  <1>2. DOMAIN device' = Modes /\ DOMAIN history' = Modes /\ DOMAIN unseen' = Modes
    BY <1>1 DEF Dispatching!IInv
  <1>3. Dispatching!LooseUnseen'
    <2> SUFFICES ASSUME NEW w \in loose, w[2] \in Modes PROVE w[1] \in unseen'[w[2]]
      BY <1>1 DEF Dispatching!LooseUnseen
    <2>1. w[1] \in unseen[w[2]]
      BY DEF Dispatching!IInv, Dispatching!LooseUnseen
    <2>2. CASE ok /\ w[2] = m
      <3>1. unseen'[m] = {v[1] : v \in Dispatching!Loose(m)}
        BY <1>1, <2>2 DEF Dispatching!IInv
      <3>2. w \in Dispatching!Loose(m)
        BY <2>2 DEF Dispatching!Loose
      <3> QED BY <3>1, <3>2, <2>2
    <2> QED BY <2>1, <2>2, <1>1 DEF Dispatching!IInv
  <1>4. ASSUME NEW n \in Modes, history'[n].outcome = "applied"
        PROVE  device'[n] \in {history'[n].by} \cup unseen'[n]
    <2>1. CASE n = m
      <3>1. history'[n] = [by |-> c, outcome |-> IF ok THEN "applied" ELSE "failed"]
        BY <1>1, <2>1 DEF Dispatching!IInv
      <3>2. ok /\ history'[n].by = c
        BY <3>1, <1>4
      <3> QED BY <3>2, <1>1, <2>1 DEF Dispatching!IInv
    <2>2. CASE n # m
      BY <1>1, <1>4, <2>2 DEF Dispatching!IInv, Dispatching!HistoryIsDevice
    <2> QED BY <2>1, <2>2
  <1> QED BY <1>2, <1>3, <1>4 DEF Dispatching!IInv, Dispatching!HistoryIsDevice

(* A caller that is cancelled changes neither; its write is unseen from    *)
(* then on. *)
LEMMA DispatchCancel ==
    ASSUME Dispatching!IInv, NEW c \in Dispatching!Callers, Dispatching!Cancel(c)
    PROVE  Dispatching!IInv'
  <1> DEFINE device == x10  history == x11  loose == x16  unseen == x17  m == Head(x2[c])
  <1>1. /\ UNCHANGED <<device, history>>
        /\ \/ /\ loose' = loose \cup {<<c, m, x15>>}
              /\ unseen' = [unseen EXCEPT ![m] = @ \cup {c}]
           \/ UNCHANGED <<loose, unseen>>
    BY DEF Dispatching!Cancel
  <1> HIDE DEF m
  <1>2. CASE UNCHANGED <<loose, unseen>>
    BY <1>1, <1>2 DEF Dispatching!IInv, Dispatching!HistoryIsDevice, Dispatching!LooseUnseen
  <1>3. CASE /\ loose' = loose \cup {<<c, m, x15>>}
             /\ unseen' = [unseen EXCEPT ![m] = @ \cup {c}]
    <2>1. \A n \in Modes : unseen[n] \subseteq unseen'[n]
      BY <1>3 DEF Dispatching!IInv
    <2>2. m \in Modes => c \in unseen'[m]
      BY <1>3 DEF Dispatching!IInv
    <2>3. Dispatching!LooseUnseen'
      <3> SUFFICES ASSUME NEW w \in loose \cup {<<c, m, x15>>}, w[2] \in Modes
                   PROVE  w[1] \in unseen'[w[2]]
        BY <1>3 DEF Dispatching!LooseUnseen
      <3>1. CASE w \in loose
        BY <3>1, <2>1 DEF Dispatching!IInv, Dispatching!LooseUnseen
      <3>2. CASE w = <<c, m, x15>>
        BY <3>2, <2>2
      <3> QED BY <3>1, <3>2
    <2>4. Dispatching!HistoryIsDevice'
      BY <1>1, <2>1 DEF Dispatching!IInv, Dispatching!HistoryIsDevice
    <2> QED BY <1>1, <1>3, <2>3, <2>4 DEF Dispatching!IInv
  <1> QED BY <1>1, <1>2, <1>3

(* A cancelled write that ends has been unseen since. *)
LEMMA DispatchLand ==
    ASSUME Dispatching!IInv, NEW w \in x16, NEW reached \in BOOLEAN,
           Dispatching!Land(w, reached)
    PROVE  Dispatching!IInv'
  <1> DEFINE device == x10  history == x11  loose == x16  unseen == x17
  <1>1. /\ UNCHANGED <<history, unseen>> /\ loose' = loose \ {w}
        /\ device' = IF reached THEN [device EXCEPT ![w[2]] = w[1]] ELSE device
    BY DEF Dispatching!Land
  <1>2. \A n \in Modes : device'[n] \in {device[n]} \cup unseen[n]
    BY <1>1 DEF Dispatching!IInv, Dispatching!LooseUnseen
  <1>3. Dispatching!LooseUnseen'
    BY <1>1 DEF Dispatching!IInv, Dispatching!LooseUnseen
  <1>4. Dispatching!HistoryIsDevice'
    BY <1>1, <1>2 DEF Dispatching!IInv, Dispatching!HistoryIsDevice
  <1> QED BY <1>1, <1>3, <1>4 DEF Dispatching!IInv

(* Every step of the part keeps its invariant. *)
LEMMA DispatchStep ==
    ASSUME Dispatching!IInv, [Dispatching!Next]_(Dispatching!vars) PROVE Dispatching!IInv'
  <1> DEFINE device == x10  history == x11  loose == x16  unseen == x17
  <1>1. CASE UNCHANGED <<device, history, loose, unseen>>
    BY <1>1 DEF Dispatching!IInv, Dispatching!HistoryIsDevice, Dispatching!LooseUnseen
  <1>2. CASE UNCHANGED Dispatching!vars
    BY <1>1, <1>2 DEF Dispatching!vars, Dispatching!records
  <1>3. ASSUME NEW c \in Dispatching!Callers, Dispatching!Call(c) \/ Dispatching!Locked(c)
        PROVE  UNCHANGED <<device, history, loose, unseen>>
    BY <1>3 DEF Dispatching!Call, Dispatching!Locked, Dispatching!records
  <1>4. ASSUME Dispatching!Age \/ Dispatching!Repair \/ Dispatching!ThreadEnds
        PROVE  UNCHANGED <<device, history, loose, unseen>>
    BY <1>4 DEF Dispatching!Age, Dispatching!Repair, Dispatching!ThreadEnds, Dispatching!Built,
                Dispatching!records
  <1>5. CASE Dispatching!Next
    BY <1>5, <1>1, <1>3, <1>4, DispatchWrite, DispatchCancel, DispatchLand DEF Dispatching!Next
  <1> QED BY <1>2, <1>5

(* The operations history and the device agree on every mode whose last    *)
(* kept write is an applied one, whatever callers there are, in whatever   *)
(* order their writes queue for the connector, fail or are cancelled: up   *)
(* to a cancelled write whose thread was running when that one was applied *)
(* or that was cancelled since (_apply_one, _keep_write).                  *)
THEOREM HistoryAgrees == Spec => []HistoryIsDevice
  <1> DEFINE Inv == part = "dispatch" => Dispatching!IInv
  <1>1. Init => Inv
    BY PartInit, DispatchInit
  <1>2. Inv /\ [Next]_vars => Inv'
    BY PartStep, DispatchStep
  <1>3. Inv => HistoryIsDevice
    BY DEF HistoryIsDevice, Dispatching!IInv
  <1> QED BY <1>1, <1>2, <1>3, PTL DEF Spec

-----------------------------------------------------------------------------
(* Tariffs. *)

(* A poller that rests, and a walk that found nothing. *)
LEMMA PricingIdle ==
    /\ Pricing!Nothing \in Pricing!Lists /\ Pricing!Nothing.all = {}
    /\ Pricing!Idle \in Pricing!Runs /\ Pricing!Idle.pc = "idle"
  <1>1. Pricing!Nothing \in Pricing!Lists /\ Pricing!Nothing.all = {}
    BY DEF Pricing!Nothing, Pricing!Lists
  <1>2. Pricing!Idle \in Pricing!Runs
    BY <1>1 DEF Pricing!Idle, Pricing!Runs
  <1>3. Pricing!Idle.pc = "idle"
    BY DEF Pricing!Idle
  <1> QED BY <1>1, <1>2, <1>3

(* The part starts as its invariant has it. *)
LEMMA PricingInit == ASSUME Pricing!Init PROVE Pricing!IInv
  <1> USE PartsAssumption DEF Pricing!Mrids
  <1>1. Pricing!Idle \in Pricing!Runs /\ Pricing!Idle.pc = "idle"
    BY PricingIdle
  <1>2. Pricing!Shape
    BY <1>1 DEF Pricing!Init, Pricing!Shape, Pricing!Lists, Pricing!Receipts
  <1>3. \A m \in Pricing!Mrids \ x10 : Pricing!Everywhere(m) /\ Pricing!Counted(m)
    BY <1>1 DEF Pricing!Init, Pricing!Everywhere, Pricing!Counted
  <1>4. \A p \in Pollers : Pricing!Claimed(p)
    BY <1>1 DEF Pricing!Init, Pricing!Claimed
  <1> QED BY <1>2, <1>3, <1>4 DEF Pricing!IInv

(* The poller p goes on as r, which keeps it among the runs; where it was  *)
(* and is not posting, nothing claimed is disturbed.                       *)
LEMMA PricingMoves ==
    ASSUME Pricing!IInv, NEW p \in Pollers, NEW r \in Pricing!Runs, Pricing!To(p, r),
           r.pc # "post", x4[p].pc # "post", UNCHANGED <<x6, x9>>, x5' \subseteq x5,
           x1' \in Pricing!Lists, x3' \in Pricing!Lists \cup {None}, x2' \in Nat,
           x10 \subseteq x10',
           \A m \in Pricing!Mrids \ x10' :
               /\ m \in x1'.all /\ (x3' # None => m \in x3'.all) /\ (m \in x5 => m \in x5')
               /\ r.pc \in {"ack", "price"} => m \in r.seen.all
    PROVE  Pricing!IInv'
  <1> DEFINE served == x1  tree == x3  run == x4  sent == x5  claims == x6  acks == x9  missed == x10
  <1>1. /\ run' = [run EXCEPT ![p] = r] /\ run \in [Pollers -> Pricing!Runs]
        /\ claims' = claims /\ acks' = acks
    BY DEF Pricing!To, Pricing!IInv, Pricing!Shape
  <1>2. run'[p] = r /\ \A q \in Pollers \ {p} : run'[q] = run[q]
    BY <1>1
  <1>3. Pricing!Shape'
    BY <1>1, <1>2 DEF Pricing!IInv, Pricing!Shape
  <1>4. ASSUME NEW m \in Pricing!Mrids \ missed'
        PROVE  Pricing!Everywhere(m)' /\ Pricing!Counted(m)'
    <2>1. m \notin missed /\ Pricing!Everywhere(m) /\ Pricing!Counted(m)
      BY <1>4 DEF Pricing!IInv
    <2>2. m \in sent' <=> m \in sent
      BY <1>4
    <2>3. Pricing!Counted(m)'
      BY <2>1, <2>2, <1>1 DEF Pricing!Counted
    <2>4. ASSUME NEW q \in Pollers, run'[q].pc \in {"ack", "post", "price"}
          PROVE  m \in run'[q].seen.all
      <3>1. CASE q = p
        BY <3>1, <2>4, <1>2, <1>4
      <3>2. CASE q # p
        BY <3>2, <2>4, <1>2, <2>1 DEF Pricing!Everywhere
      <3> QED BY <3>1, <3>2
    <2> QED BY <2>3, <2>4, <1>4 DEF Pricing!Everywhere
  <1>5. ASSUME NEW q \in Pollers PROVE Pricing!Claimed(q)'
    BY <1>1, <1>2 DEF Pricing!IInv, Pricing!Claimed
  <1> QED BY <1>3, <1>4, <1>5 DEF Pricing!IInv, Pricing!Mrids

(* process_tariffs over what the poll has met: it forgets the responses    *)
(* only where no tree was left, which is a walk that failed.               *)
LEMMA PricingProcess ==
    ASSUME Pricing!IInv, NEW p \in Pollers, x4[p].pc # "post", Pricing!Process(p, x3'),
           UNCHANGED <<x1, x2, x6, x9>>, x3' \in Pricing!Lists \cup {None}, x10 \subseteq x10',
           \A m \in Pricing!Mrids \ x10' : x3' # None /\ m \in x3'.all
    PROVE  Pricing!IInv'
  <1>1. x1 \in Pricing!Lists /\ x2 \in Nat /\ \A m \in Pricing!Mrids \ x10' : m \in x1.all
    BY DEF Pricing!IInv, Pricing!Shape, Pricing!Everywhere
  <1>2. CASE x3' = None
    BY <1>1, <1>2, PricingIdle, PricingMoves DEF Pricing!Process
  <1>3. CASE x3' # None
    <2> DEFINE r == [pc |-> "ack", seen |-> x3', todo |-> {m \in x3'.all : Intervals[m].acked},
                     posting |-> None, at |-> x2]
    <2>1. Pricing!To(p, r) /\ x5' = x5
      BY <1>3 DEF Pricing!Process
    <2>2. x3' \in Pricing!Lists /\ {m \in x3'.all : Intervals[m].acked} \subseteq Pricing!Mrids
      BY <1>3 DEF Pricing!Lists
    <2>3. r \in Pricing!Runs
      BY <1>1, <2>2 DEF Pricing!Runs
    <2>4. r.pc = "ack" /\ r.seen = x3'
      OBVIOUS
    <2> HIDE DEF r
    <2> QED BY <1>1, <1>3, <2>1, <2>3, <2>4, PricingMoves
  <1> QED BY <1>2, <1>3

(* The steps of a poll before it has a tree to process. *)
LEMMA PricingWalk ==
    ASSUME Pricing!IInv, NEW p \in Pollers, NEW ok \in BOOLEAN,
           Pricing!Begin(p) \/ Pricing!ListRead(p) \/ Pricing!ListFails(p, ok) \/ Pricing!Subtree(p, ok)
    PROVE  Pricing!IInv'
  <1> DEFINE served == x1  tree == x3  run == x4  missed == x10
  <1>1. /\ served \in Pricing!Lists /\ tree \in Pricing!Lists \cup {None} /\ x2 \in Nat
        /\ run[p] \in Pricing!Runs
        /\ \A m \in Pricing!Mrids \ missed : m \in served.all /\ (tree # None => m \in tree.all)
    BY DEF Pricing!IInv, Pricing!Shape, Pricing!Everywhere
  <1>2. CASE Pricing!Begin(p)
    <2>1. /\ run[p].pc = "idle" /\ tree' = None
          /\ Pricing!To(p, [Pricing!Idle EXCEPT !.pc = "list"])
          /\ UNCHANGED <<x1, x2, x5, x6, x9, x10>>
      BY <1>2 DEF Pricing!Begin, Pricing!server
    <2>2. PICK r : r = [Pricing!Idle EXCEPT !.pc = "list"]
      OBVIOUS
    <2>3. r \in Pricing!Runs /\ r.pc = "list"
      BY <2>2, PricingIdle DEF Pricing!Runs
    <2> QED BY <2>1, <2>2, <2>3, <1>1, PricingMoves
  <1>3. CASE Pricing!ListRead(p)
    <2>1. run[p].pc = "list" /\ UNCHANGED <<x1, x2, x3, x6, x9, x10>>
      BY <1>3 DEF Pricing!ListRead, Pricing!server
    <2>2. CASE tree = None
      <3>1. Pricing!To(p, [run[p] EXCEPT !.pc = "subtree"]) /\ x5' = x5
        BY <1>3, <2>2 DEF Pricing!ListRead
      <3>2. PICK r : r = [run[p] EXCEPT !.pc = "subtree"]
        OBVIOUS
      <3>3. r \in Pricing!Runs /\ r.pc = "subtree"
        BY <3>2, <1>1 DEF Pricing!Runs
      <3> QED BY <2>1, <3>1, <3>2, <3>3, <1>1, PricingMoves
    <2>3. CASE tree # None
      <3>1. Pricing!Process(p, tree)
        BY <1>3, <2>3 DEF Pricing!ListRead
      <3>2. Pricing!Process(p, tree')
        BY <3>1, <2>1
      <3> QED BY <2>1, <2>3, <3>2, <1>1, PricingProcess
    <2> QED BY <2>2, <2>3
  <1>4. CASE Pricing!ListFails(p, ok)
    <2>1. /\ run[p].pc = "list" /\ UNCHANGED <<x1, x2, x3, x6, x9>>
          /\ missed' = missed \cup served.all
      BY <1>4 DEF Pricing!ListFails, Pricing!server
    <2>2. Pricing!Mrids \ missed' = {}
      BY <1>1, <2>1
    <2>3. CASE ok
      <3>1. Pricing!To(p, Pricing!Idle) /\ x5' = x5
        BY <1>4, <2>3 DEF Pricing!ListFails
      <3> QED BY <2>1, <2>2, <3>1, <1>1, PricingIdle, PricingMoves
    <2>4. CASE ~ok
      <3>1. Pricing!Process(p, tree)
        BY <1>4, <2>4 DEF Pricing!ListFails
      <3>2. Pricing!Process(p, tree')
        BY <3>1, <2>1
      <3> QED BY <2>1, <2>2, <3>2, <1>1, PricingProcess
    <2> QED BY <2>3, <2>4
  <1>5. CASE Pricing!Subtree(p, ok)
    <2>1. /\ run[p].pc = "subtree" /\ UNCHANGED <<x1, x2, x6, x9>>
          /\ tree' = (IF ok THEN served ELSE Pricing!Nothing)
          /\ missed' = (IF ok THEN missed ELSE missed \cup served.all)
          /\ Pricing!Process(p, tree')
      BY <1>5 DEF Pricing!Subtree, Pricing!server
    <2>2. tree' \in Pricing!Lists
      BY <2>1, <1>1, PricingIdle
    <2>3. tree' # None
      BY <2>2, PartsAssumption DEF Pricing!Lists, Pricing!Mrids
    <2>4. \A m \in Pricing!Mrids \ missed' : m \in tree'.all
      BY <2>1, <1>1
    <2> QED BY <2>1, <2>2, <2>3, <2>4, PricingProcess
  <1> QED BY <1>2, <1>3, <1>4, <1>5

(* One interval's response: claimed by Ack, settled by Posted. *)
LEMMA PricingAck ==
    ASSUME Pricing!IInv, NEW p \in Pollers, Pricing!Ack(p) PROVE Pricing!IInv'
  <1> DEFINE run == x4  sent == x5  claims == x6
  <1>1. PICK m \in run[p].todo :
            /\ Pricing!Reservable(m) /\ claims' = [claims EXCEPT ![m] = p]
            /\ Pricing!To(p, [run[p] EXCEPT !.pc = "post", !.posting = m, !.todo = {m} \cup (@ \ sent)])
    BY DEF Pricing!Ack
  <1>2. run[p].pc = "ack" /\ UNCHANGED <<x1, x2, x3, x5, x9, x10>>
    BY DEF Pricing!Ack, Pricing!server
  <1>3. run \in [Pollers -> Pricing!Runs] /\ run[p] \in Pricing!Runs
    BY DEF Pricing!IInv, Pricing!Shape
  <1>4. m \in Pricing!Mrids
    BY <1>1, <1>3 DEF Pricing!Runs
  <1>5. PICK r : r = [run[p] EXCEPT !.pc = "post", !.posting = m, !.todo = {m} \cup (@ \ sent)]
    OBVIOUS
  <1>6. r \in Pricing!Runs /\ r.pc = "post" /\ r.posting = m /\ r.seen = run[p].seen
    BY <1>5, <1>3, <1>4 DEF Pricing!Runs
  <1>7. run' = [run EXCEPT ![p] = r]
    BY <1>1, <1>5 DEF Pricing!To
  <1>8. run'[p] = r /\ \A q \in Pollers \ {p} : run'[q] = run[q]
    BY <1>7, <1>3
  <1>9. Pricing!Shape'
    BY <1>1, <1>2, <1>3, <1>4, <1>6, <1>7, <1>8 DEF Pricing!IInv, Pricing!Shape
  <1>10. ASSUME NEW n \in Pricing!Mrids \ x10' PROVE Pricing!Everywhere(n)' /\ Pricing!Counted(n)'
    BY <1>2, <1>6, <1>8, <1>10 DEF Pricing!IInv, Pricing!Everywhere, Pricing!Counted
  <1>11. ASSUME NEW q \in Pollers PROVE Pricing!Claimed(q)'
    <2>1. claims \in [Pricing!Mrids -> Pollers \cup {None}] /\ m \notin sent /\ claims[m] = None
      BY <1>1 DEF Pricing!IInv, Pricing!Shape, Pricing!Reservable
    <2>2. CASE q = p
      BY <2>1, <2>2, <1>1, <1>2, <1>4, <1>6, <1>8 DEF Pricing!Claimed
    <2>3. CASE q # p
      <3>1. run[q].pc = "post" => claims[run[q].posting] = q /\ run[q].posting \notin sent
        BY DEF Pricing!IInv, Pricing!Claimed
      <3>2. run[q].pc = "post" => run[q].posting \in Pricing!Mrids
        BY DEF Pricing!IInv, Pricing!Shape
      <3>3. run[q].pc = "post" => run[q].posting # m
        BY <2>1, <3>1, PartsAssumption
      <3> QED BY <2>1, <2>3, <3>1, <3>2, <3>3, <1>1, <1>2, <1>8 DEF Pricing!Claimed
    <2> QED BY <2>2, <2>3
  <1> QED BY <1>9, <1>10, <1>11 DEF Pricing!IInv, Pricing!Mrids

(* An attempt that failed counts for itself, received or not. *)
LEMMA PricingUnanswered ==
    ASSUME NEW m \in Pricing!Mrids, x9 \in [Pricing!Mrids -> Pricing!Receipts],
           Pricing!Unanswered(m)
    PROVE  /\ x9' \in [Pricing!Mrids -> Pricing!Receipts]
           /\ \A n \in Pricing!Mrids : x9'[n].got - x9'[n].unproved = x9[n].got - x9[n].unproved
  <1>1. CASE x9' = x9
    BY <1>1
  <1>2. CASE x9' # x9
    <2>1. PICK r : r = [got |-> x9[m].got + 1, unproved |-> x9[m].unproved + 1]
      OBVIOUS
    <2>2. x9' = [x9 EXCEPT ![m] = r]
      BY <1>2, <2>1 DEF Pricing!Unanswered
    <2>3. x9[m].got \in Nat /\ x9[m].unproved \in Nat
      BY DEF Pricing!Receipts
    <2>4. r \in Pricing!Receipts /\ r.got = x9[m].got + 1 /\ r.unproved = x9[m].unproved + 1
      BY <2>1, <2>3 DEF Pricing!Receipts
    <2>5. x9' \in [Pricing!Mrids -> Pricing!Receipts]
      BY <2>2, <2>4
    <2>6. ASSUME NEW n \in Pricing!Mrids
          PROVE  x9'[n].got - x9'[n].unproved = x9[n].got - x9[n].unproved
      <3>1. CASE n = m
        BY <3>1, <2>2, <2>3, <2>4
      <3>2. CASE n # m
        BY <3>2, <2>2
      <3> QED BY <3>1, <3>2
    <2> QED BY <2>5, <2>6
  <1> QED BY <1>1, <1>2

(* So it leaves the count of the one that succeeds alone. *)
LEMMA PricingStillCounted ==
    ASSUME NEW m \in Pricing!Mrids, x9 \in [Pricing!Mrids -> Pricing!Receipts],
           x9' \in [Pricing!Mrids -> Pricing!Receipts], Pricing!Counted(m), x5' = x5,
           x9'[m].got - x9'[m].unproved = x9[m].got - x9[m].unproved
    PROVE  Pricing!Counted(m)'
  <1>1. /\ x9[m].got \in Nat /\ x9[m].unproved \in Nat
        /\ x9'[m].got \in Nat /\ x9'[m].unproved \in Nat
    BY DEF Pricing!Receipts
  <1> QED BY <1>1 DEF Pricing!Counted

LEMMA PricingAttemptLost ==
    ASSUME Pricing!IInv, NEW p \in Pollers, Pricing!AttemptLost(p) PROVE Pricing!IInv'
  <1>1. /\ x4[p].posting \in Pricing!Mrids /\ x9 \in [Pricing!Mrids -> Pricing!Receipts]
        /\ Pricing!Unanswered(x4[p].posting) /\ UNCHANGED <<x1, x2, x3, x4, x5, x6, x10>>
    BY DEF Pricing!IInv, Pricing!Shape, Pricing!AttemptLost, Pricing!server
  <1>2. /\ x9' \in [Pricing!Mrids -> Pricing!Receipts]
        /\ \A n \in Pricing!Mrids : x9'[n].got - x9'[n].unproved = x9[n].got - x9[n].unproved
    BY <1>1, PricingUnanswered
  <1>3. Pricing!Shape'
    BY <1>1, <1>2 DEF Pricing!IInv, Pricing!Shape
  <1>4. ASSUME NEW n \in Pricing!Mrids \ x10' PROVE Pricing!Everywhere(n)' /\ Pricing!Counted(n)'
    <2>1. Pricing!Everywhere(n) /\ Pricing!Counted(n)
      BY <1>1, <1>4 DEF Pricing!IInv
    <2>2. Pricing!Counted(n)'
      BY <2>1, <1>1, <1>2, <1>4, PricingStillCounted
    <2> QED BY <2>1, <2>2, <1>1 DEF Pricing!Everywhere
  <1>5. \A q \in Pollers : Pricing!Claimed(q)'
    BY <1>1 DEF Pricing!IInv, Pricing!Claimed
  <1> QED BY <1>3, <1>4, <1>5 DEF Pricing!IInv, Pricing!Mrids

(* Only the poll that claimed it has the response in flight, so what       *)
(* succeeds was not in _sent and no attempt succeeded before.              *)
LEMMA PricingPosted ==
    ASSUME Pricing!IInv, NEW p \in Pollers, NEW ok \in BOOLEAN, Pricing!Posted(p, ok)
    PROVE  Pricing!IInv'
  <1> DEFINE run == x4  sent == x5  claims == x6  acks == x9
  <1>1. PICK m : m = run[p].posting
    OBVIOUS
  <1>2. /\ run[p].pc = "post" /\ UNCHANGED <<x1, x2, x3, x10>>
        /\ claims' = [claims EXCEPT ![m] = None]
        /\ sent' = (IF ok THEN sent \cup {m} ELSE sent)
        /\ IF ok THEN acks' = [acks EXCEPT ![m].got = @ + 1] ELSE Pricing!Unanswered(m)
        /\ Pricing!To(p, [run[p] EXCEPT !.pc = "ack", !.todo = @ \ {m}, !.posting = None])
    BY <1>1 DEF Pricing!Posted, Pricing!server
  <1>3. /\ run \in [Pollers -> Pricing!Runs] /\ run[p] \in Pricing!Runs /\ m \in Pricing!Mrids
        /\ claims \in [Pricing!Mrids -> Pollers \cup {None}] /\ acks \in [Pricing!Mrids -> Pricing!Receipts]
    BY <1>1, <1>2 DEF Pricing!IInv, Pricing!Shape
  <1>4. claims[m] = p /\ m \notin sent
    BY <1>1, <1>2 DEF Pricing!IInv, Pricing!Claimed
  <1>5. PICK r : r = [run[p] EXCEPT !.pc = "ack", !.todo = @ \ {m}, !.posting = None]
    OBVIOUS
  <1>6. r \in Pricing!Runs /\ r.pc = "ack" /\ r.seen = run[p].seen
    BY <1>5, <1>3 DEF Pricing!Runs
  <1>7. run' = [run EXCEPT ![p] = r]
    BY <1>2, <1>5 DEF Pricing!To
  <1>8. run'[p] = r /\ \A q \in Pollers \ {p} : run'[q] = run[q]
    BY <1>7, <1>3
  <1>9. /\ acks' \in [Pricing!Mrids -> Pricing!Receipts]
        /\ \A n \in Pricing!Mrids : Pricing!Counted(n) => Pricing!Counted(n)'
    <2>1. CASE ~ok
      <3>1. Pricing!Unanswered(m) /\ sent' = sent
        BY <1>2, <2>1
      <3> QED BY <3>1, <1>3, PricingUnanswered, PricingStillCounted
    <2>2. CASE ok
      <3>1. acks' = [acks EXCEPT ![m].got = @ + 1] /\ sent' = sent \cup {m}
        BY <1>2, <2>2
      <3>2. PICK one : one = [acks[m] EXCEPT !.got = @ + 1]
        OBVIOUS
      <3>3. /\ one \in Pricing!Receipts /\ one.got = acks[m].got + 1 /\ one.unproved = acks[m].unproved
            /\ acks[m].got \in Nat /\ acks[m].unproved \in Nat
        BY <3>2, <1>3 DEF Pricing!Receipts
      <3>4. acks' = [acks EXCEPT ![m] = one]
        BY <3>1, <3>2
      <3>5. acks' \in [Pricing!Mrids -> Pricing!Receipts]
        BY <3>3, <3>4, <1>3
      <3>6. ASSUME NEW n \in Pricing!Mrids, Pricing!Counted(n) PROVE Pricing!Counted(n)'
        <4>1. CASE n = m
          BY <4>1, <3>1, <3>3, <3>4, <3>6, <1>3, <1>4 DEF Pricing!Counted
        <4>2. CASE n # m
          BY <4>2, <3>1, <3>4, <3>6, <1>3 DEF Pricing!Counted
        <4> QED BY <4>1, <4>2
      <3> QED BY <3>5, <3>6
    <2> QED BY <2>1, <2>2
  <1>10. Pricing!Shape'
    BY <1>2, <1>3, <1>6, <1>7, <1>8, <1>9 DEF Pricing!IInv, Pricing!Shape
  <1>11. ASSUME NEW n \in Pricing!Mrids \ x10' PROVE Pricing!Everywhere(n)' /\ Pricing!Counted(n)'
    <2>1. Pricing!Everywhere(n) /\ Pricing!Counted(n)
      BY <1>2, <1>11 DEF Pricing!IInv
    <2>2. Pricing!Everywhere(n)'
      BY <2>1, <1>2, <1>6, <1>8 DEF Pricing!Everywhere
    <2>3. Pricing!Counted(n)'
      BY <2>1, <1>9, <1>11
    <2> QED BY <2>2, <2>3
  <1>12. ASSUME NEW q \in Pollers PROVE Pricing!Claimed(q)'
    <2>1. CASE q = p
      BY <2>1, <1>6, <1>8 DEF Pricing!Claimed
    <2>2. CASE q # p
      <3>1. run[q].pc = "post" => claims[run[q].posting] = q /\ run[q].posting \notin sent
        BY DEF Pricing!IInv, Pricing!Claimed
      <3>2. run[q].pc = "post" => run[q].posting \in Pricing!Mrids /\ run[q].posting # m
        BY <1>4, <2>2, <3>1 DEF Pricing!IInv, Pricing!Shape
      <3> QED BY <2>2, <3>1, <3>2, <1>2, <1>3, <1>8 DEF Pricing!Claimed
    <2> QED BY <2>1, <2>2
  <1> QED BY <1>10, <1>11, <1>12 DEF Pricing!IInv, Pricing!Mrids

(* The relay and the end of a poll: what it forgets it did not walk. *)
LEMMA PricingRelay ==
    ASSUME Pricing!IInv, NEW p \in Pollers, NEW ok \in BOOLEAN,
           Pricing!RelayIfChanged(p) \/ Pricing!Price(p, ok)
    PROVE  Pricing!IInv'
  <1> DEFINE run == x4  sent == x5
  <1>1. /\ x1 \in Pricing!Lists /\ x3 \in Pricing!Lists \cup {None} /\ x2 \in Nat
        /\ run[p] \in Pricing!Runs
        /\ \A m \in Pricing!Mrids \ x10 : Pricing!Everywhere(m)
    BY DEF Pricing!IInv, Pricing!Shape
  <1>2. run[p].pc \in {"ack", "price"} /\ UNCHANGED <<x1, x2, x3, x6, x9, x10>>
    BY DEF Pricing!RelayIfChanged, Pricing!Price, Pricing!server
  <1>3. \A m \in Pricing!Mrids \ x10 :
            m \in x1.all /\ (x3 # None => m \in x3.all) /\ m \in run[p].seen.all
    BY <1>1, <1>2 DEF Pricing!Everywhere
  <1>4. CASE Pricing!Finish(p)
    <2>1. Pricing!To(p, Pricing!Idle) /\ sent' \in {sent, sent \cap run[p].seen.all}
      BY <1>4 DEF Pricing!Finish
    <2> QED BY <2>1, <1>1, <1>2, <1>3, PricingIdle, PricingMoves
  <1>5. CASE Pricing!To(p, [run[p] EXCEPT !.pc = "price"]) /\ UNCHANGED sent
    <2>1. PICK r : r = [run[p] EXCEPT !.pc = "price"]
      OBVIOUS
    <2>2. r \in Pricing!Runs /\ r.pc = "price" /\ r.seen = run[p].seen
      BY <2>1, <1>1 DEF Pricing!Runs
    <2> QED BY <1>5, <2>1, <2>2, <1>1, <1>2, <1>3, PricingMoves
  <1> QED BY <1>4, <1>5 DEF Pricing!RelayIfChanged, Pricing!Price

(* The clock and the server: what is withdrawn is missed from then on. *)
LEMMA PricingServer ==
    ASSUME Pricing!IInv, Pricing!Tick \/ \E m \in Pricing!Mrids : Pricing!ServerChanges(m)
    PROVE  Pricing!IInv'
  <1>1. /\ x1 \in Pricing!Lists /\ x2 \in Nat
        /\ \A m \in Pricing!Mrids \ x10 : Pricing!Everywhere(m) /\ Pricing!Counted(m)
    BY DEF Pricing!IInv, Pricing!Shape
  <1>2. UNCHANGED <<x3, x4, x5, x6, x9>>
    BY DEF Pricing!Tick, Pricing!ServerChanges
  <1>3. x2' \in Nat /\ x10 \subseteq x10'
    BY <1>1 DEF Pricing!Tick, Pricing!ServerChanges
  <1>4. x1' \in Pricing!Lists /\ \A n \in Pricing!Mrids \ x10' : n \in x1.all => n \in x1'.all
    <2>1. CASE Pricing!Tick
      BY <2>1, <1>1 DEF Pricing!Tick
    <2>2. ASSUME NEW m \in Pricing!Mrids, Pricing!ServerChanges(m)
          PROVE  x1' \in Pricing!Lists /\ \A n \in Pricing!Mrids \ x10' : n \in x1.all => n \in x1'.all
      <3>1. /\ x1' \in {[all |-> x1.all \ {m}, off |-> x1.off \ {m}],
                        [x1 EXCEPT !.all = @ \cup {m}],
                        [x1 EXCEPT !.off = @ \cup ({m} \cap x1.all)]}
            /\ x10' = x10 \cup (x1.all \ x1'.all)
        BY <2>2 DEF Pricing!ServerChanges
      <3>2. x1' \in Pricing!Lists
        BY <3>1, <1>1, <2>2 DEF Pricing!Lists
      <3> QED BY <3>1, <3>2
    <2> QED BY <2>1, <2>2
  <1>5. Pricing!Shape'
    BY <1>2, <1>3, <1>4 DEF Pricing!IInv, Pricing!Shape
  <1>6. ASSUME NEW n \in Pricing!Mrids \ x10' PROVE Pricing!Everywhere(n)' /\ Pricing!Counted(n)'
    BY <1>1, <1>2, <1>3, <1>4, <1>6 DEF Pricing!Everywhere, Pricing!Counted
  <1>7. \A q \in Pollers : Pricing!Claimed(q)'
    BY <1>2 DEF Pricing!IInv, Pricing!Claimed
  <1> QED BY <1>5, <1>6, <1>7 DEF Pricing!IInv, Pricing!Mrids

(* Every step of the part keeps its invariant. *)
LEMMA PricingStep ==
    ASSUME Pricing!IInv, [Pricing!Next]_(Pricing!vars) PROVE Pricing!IInv'
  <1>1. CASE UNCHANGED Pricing!vars
    BY <1>1 DEF Pricing!vars, Pricing!server, Pricing!relay, Pricing!IInv, Pricing!Shape,
                Pricing!Everywhere, Pricing!Counted, Pricing!Claimed
  <1>2. CASE Pricing!Next
    <2>1. CASE Pricing!Tick \/ \E m \in Pricing!Mrids : Pricing!ServerChanges(m)
      BY <2>1, PricingServer
    <2>2. ASSUME NEW p \in Pollers, Pricing!PollStep(p) PROVE Pricing!IInv'
      BY <2>2, PricingWalk, PricingAck, PricingAttemptLost, PricingPosted, PricingRelay
      DEF Pricing!PollStep
    <2> QED BY <1>2, <2>1, <2>2 DEF Pricing!Next
  <1> QED BY <1>1, <1>2

(* The server gets one response per price interval and one for each        *)
(* attempt it took in and the client saw fail, for any intervals, any      *)
(* number of polls that overlap, and posts and walks that fail, as long as *)
(* the interval was neither withdrawn nor lost to a failed walk            *)
(* (_ack_received, ResponseTracker.reserve, retain_mrids, with_retry).     *)
THEOREM ResponsesOnce == Spec => []AckedOnce
  <1> DEFINE Inv == part = "tariffs" => Pricing!IInv
  <1>1. Init => Inv
    BY PartInit, PricingInit
  <1>2. Inv /\ [Next]_vars => Inv'
    BY PartStep, PricingStep
  <1>3. Inv => AckedOnce
    <2>1. ASSUME Pricing!IInv PROVE Pricing!AckedOnce
      <3> SUFFICES ASSUME NEW m \in Pricing!Mrids \ x10 PROVE x9[m].got <= 1 + x9[m].unproved
        BY DEF Pricing!AckedOnce
      <3>1. x9[m].got \in Nat /\ x9[m].unproved \in Nat /\ Pricing!Counted(m)
        BY <2>1 DEF Pricing!IInv, Pricing!Shape, Pricing!Receipts
      <3> QED BY <3>1 DEF Pricing!Counted
    <2> QED BY <2>1 DEF AckedOnce
  <1> QED BY <1>1, <1>2, <1>3, PTL DEF Spec

-----------------------------------------------------------------------------
(* Runner. *)

(* The process starts with nothing open and nothing failed. *)
LEMMA RunningInit == ASSUME Running!Init PROVE Running!IInv
  BY DEF Running!Init, Running!IInv, Running!OpenAt, Running!AllClosed, Running!ConnectTold,
         Running!ApiSeesTelemetry, Running!Leaving, Running!Teardown, Running!Inside

(* What the steps up to the try block do, and those that leave before it. *)
LEMMA RunningStarts ==
    ASSUME Running!IInv, NEW b \in BOOLEAN, NEW c \in BOOLEAN,
           Running!Start \/ Running!Find \/ Running!FindWait \/ Running!Build(b, c)
    PROVE  Running!IInv'
  <1> DEFINE config == x1  pc == x2  open == x8
  <1> USE DEF Running!IInv, Running!OpenAt, Running!AllClosed, Running!ConnectTold,
              Running!ApiSeesTelemetry, Running!Leaving, Running!CodeTrue, Running!Teardown,
              Running!Inside, Running!LeaveEarly, Running!EXIT_OK, Running!EXIT_ERROR,
              Running!EXIT_CONFIG_ERROR, Running!EXIT_CONNECT_FAILED, Running!asked,
              Running!progress, Running!work, Running!served, Running!StopSeen
  <1>1. CASE Running!Start
    BY <1>1 DEF Running!Start, Running!Resources
  <1>2. CASE Running!Find
    BY <1>2 DEF Running!Find
  <1>3. CASE Running!FindWait
    BY <1>3 DEF Running!FindWait
  <1>4. CASE Running!Build(b, c)
    <2>1. config' = [config EXCEPT !.history = @ /\ c] /\ pc = "build"
      BY <1>4 DEF Running!Build
    <2>2. config' \in Running!Configs
      BY <2>1 DEF Running!Configs
    <2>3. CASE b
      BY <1>4, <2>2, <2>3 DEF Running!Build, Running!Resources
    <2>4. CASE ~b
      BY <1>4, <2>2, <2>4 DEF Running!Build
    <2> QED BY <2>3, <2>4
  <1> QED BY <1>1, <1>2, <1>3, <1>4

(* Inside the try block: the connect loop, and what leads to the run loop. *)
LEMMA RunningInside ==
    ASSUME Running!IInv, NEW b \in BOOLEAN,
           \/ Running!ServeApi(b) \/ Running!Connecting \/ Running!ConnectWait
           \/ Running!Connected \/ Running!ApiGone \/ Running!Register \/ Running!PollNow(b)
           \/ Running!StartTelemetry(b) \/ Running!RunEnds(b)
    PROVE  Running!IInv'
  <1> DEFINE config == x1  pc == x2  connect == x5  open == x8
  <1> USE DEF Running!IInv, Running!OpenAt, Running!AllClosed, Running!ConnectTold,
              Running!ApiSeesTelemetry, Running!Leaving, Running!CodeTrue, Running!Teardown,
              Running!Inside, Running!Leave, Running!EXIT_OK, Running!EXIT_ERROR,
              Running!EXIT_CONFIG_ERROR, Running!EXIT_CONNECT_FAILED, Running!asked,
              Running!progress, Running!work, Running!served, Running!StopSeen
  <1>1. CASE Running!ServeApi(b)
    <2>1. CASE config.api /\ ~b
      BY <1>1, <2>1 DEF Running!ServeApi
    <2>2. CASE ~(config.api /\ ~b)
      <3>1. /\ pc = "serve" /\ pc' = "connecting" /\ connect' = "trying"
            /\ open' \in {open \cup {"api"}, open \cup {}}
            /\ UNCHANGED <<x1, x3, x4, x6, x7, x9, x10, x11, x12, x13, x14, x15>>
        BY <1>1, <2>2 DEF Running!ServeApi
      <3> QED BY <3>1 DEF Running!Resources
    <2> QED BY <2>1, <2>2
  <1>2. CASE Running!Connecting
    BY <1>2 DEF Running!Connecting
  <1>3. CASE Running!ConnectWait
    BY <1>3 DEF Running!ConnectWait
  <1>4. CASE Running!Connected
    <2>1. CASE connect = "connected"
      BY <1>4, <2>1 DEF Running!Connected
    <2>2. CASE connect = "gave_up"
      BY <1>4, <2>2 DEF Running!Connected
    <2>3. CASE connect = "refused"
      BY <1>4, <2>3 DEF Running!Connected
    <2>4. CASE connect = "unusable"
      BY <1>4, <2>4 DEF Running!Connected
    <2> QED BY <1>4, <2>1, <2>2, <2>3, <2>4 DEF Running!Connected
  <1>5. CASE Running!ApiGone
    BY <1>5 DEF Running!ApiGone
  <1>6. CASE Running!Register
    BY <1>6 DEF Running!Register
  <1>7. CASE Running!PollNow(b)
    BY <1>7 DEF Running!PollNow
  <1>8. CASE Running!StartTelemetry(b)
    BY <1>8 DEF Running!StartTelemetry, Running!Resources
  <1>9. CASE Running!RunEnds(b)
    BY <1>9 DEF Running!RunEnds
  <1> QED BY <1>1, <1>2, <1>3, <1>4, <1>5, <1>6, <1>7, <1>8, <1>9

(* The finally clauses: each closes what the point after it must not have, *)
(* and telemetry hands over while the history is open.                     *)
LEMMA RunningCloses ==
    ASSUME Running!IInv,
           \/ Running!TelemetryDown \/ Running!ApiDown \/ Running!ClientDown
           \/ Running!HistoryDown \/ Running!Goodbye
    PROVE  Running!IInv'
  <1> USE DEF Running!IInv, Running!OpenAt, Running!AllClosed, Running!ConnectTold,
              Running!ApiSeesTelemetry, Running!Leaving, Running!CodeTrue, Running!Teardown,
              Running!Inside, Running!asked, Running!progress, Running!work, Running!served
  <1>1. CASE Running!TelemetryDown
    BY <1>1 DEF Running!TelemetryDown, Running!Resources
  <1>2. CASE Running!ApiDown
    BY <1>2 DEF Running!ApiDown
  <1>3. CASE Running!ClientDown
    BY <1>3 DEF Running!ClientDown
  <1>4. CASE Running!HistoryDown
    BY <1>4 DEF Running!HistoryDown
  <1>5. CASE Running!Goodbye
    BY <1>5 DEF Running!Goodbye
  <1> QED BY <1>1, <1>2, <1>3, <1>4, <1>5

(* What runs beside the sequence closes nothing and takes no fault back. *)
LEMMA RunningBeside ==
    ASSUME Running!IInv, Running!Beside \/ Running!Done \/ UNCHANGED Running!vars
    PROVE  Running!IInv'
  <1> USE DEF Running!IInv, Running!OpenAt, Running!AllClosed, Running!ConnectTold,
              Running!ApiSeesTelemetry, Running!Leaving, Running!CodeTrue, Running!Teardown,
              Running!Inside, Running!asked, Running!progress, Running!work, Running!served
  <1>1. CASE Running!Signal
    BY <1>1 DEF Running!Signal
  <1>2. CASE Running!AskReconnect
    BY <1>2 DEF Running!AskReconnect
  <1>3. CASE Running!ApiEnds
    BY <1>3 DEF Running!ApiEnds
  <1>4. CASE Running!Measure
    BY <1>4 DEF Running!Measure
  <1>5. CASE Running!Restarted
    BY <1>5 DEF Running!Restarted
  <1>6. ASSUME NEW b \in BOOLEAN, Running!Rediscovered(b) PROVE Running!IInv'
    BY <1>6 DEF Running!Rediscovered
  <1>7. CASE UNCHANGED Running!vars
    BY <1>7 DEF Running!vars
  <1> QED BY <1>1, <1>2, <1>3, <1>4, <1>5, <1>6, <1>7 DEF Running!Beside, Running!Done

(* Every step of the part keeps its invariant. *)
LEMMA RunningStep ==
    ASSUME Running!IInv, [Running!Next]_(Running!vars) PROVE Running!IInv'
  <1>1. CASE Running!Main
    BY <1>1, RunningStarts, RunningInside, RunningCloses DEF Running!Main
  <1>2. CASE Running!Connect
    BY <1>2, RunningInside DEF Running!Connect
  <1>3. ASSUME NEW e \in BOOLEAN, Running!RunEnds(e) PROVE Running!IInv'
    BY <1>3, RunningInside
  <1>4. CASE Running!Beside \/ Running!Done \/ UNCHANGED Running!vars
    BY <1>4, RunningBeside
  <1> QED BY <1>1, <1>2, <1>3, <1>4 DEF Running!Next

(* However far the command came and whatever failed, was signalled or      *)
(* ended beside it, for any number of attempts, requests and               *)
(* rediscoveries: a process that ends has closed all it opened and lost no *)
(* interval, its exit code is true, and the management API shows the       *)
(* metering manager in use (cli.py: run, _run_client).                     *)
THEOREM CommandEndsInOrder == Spec => []EndsInOrder
  <1> DEFINE Inv == part = "command" => Running!IInv
  <1>1. Init => Inv
    BY PartInit, RunningInit
  <1>2. Inv /\ [Next]_vars => Inv'
    BY PartStep, RunningStep
  <1>3. Inv => EndsInOrder
    <2>1. Running!IInv => Running!AllClosed /\ Running!ExitCodeTrue /\ Running!ApiSeesTelemetry
      BY DEF Running!IInv, Running!Leaving, Running!CodeTrue, Running!ExitCodeTrue
    <2> QED BY <2>1 DEF EndsInOrder
  <1> QED BY <1>1, <1>2, <1>3, PTL DEF Spec

-----------------------------------------------------------------------------
(* Timebase. *)

(* The Time resources of the server and the FSAs are among those polled, a *)
(* poll's rate is at least one tick, and three polls outlast the two ticks *)
(* that two polls in a row may add to it.                                  *)
LEMMA ClockConstants ==
    /\ \A s \in Clock!Everyone : Clock!Href(s) \in Clock!HrefSet
    /\ Clock!Global \in Clock!Everyone
    /\ PollTicks \in Nat /\ PollTicks >= 1 /\ Clock!Never = 0
    /\ Clock!StaleAfter \in Nat /\ PollTicks + 2 <= Clock!StaleAfter
  <1>1. Clock!GlobalHref \in Clock!HrefSet
    BY PartsAssumption DEF Clock!GlobalHref, Clock!HrefSet
  <1>2. \A s \in Scopes : HrefOf[s] \in Clock!HrefSet
    BY PartsAssumption DEF Clock!HrefSet
  <1>3. \A s \in Clock!Everyone : Clock!Href(s) \in Clock!HrefSet
    BY <1>1, <1>2 DEF Clock!Everyone, Clock!Href
  <1>4. Clock!StaleAfter \in Nat /\ PollTicks + 2 <= Clock!StaleAfter
    BY PartsAssumption DEF Clock!StaleAfter
  <1> QED BY <1>3, <1>4, PartsAssumption DEF Clock!Global, Clock!Never, Clock!Everyone

(* The types, by the part's names. *)
LEMMA ClockTypes ==
    ASSUME Clock!IInv
    PROVE  /\ x1 \in Nat /\ x2 \in [Clock!HrefSet -> Clock!Answers] /\ x3 \subseteq Clock!Everyone
           /\ x4 \in [Clock!Everyone -> Nat] /\ x6 \in Nat /\ x7 \in BOOLEAN
           /\ x8 \in [Clock!HrefSet -> Nat]
           /\ x5 \in [on : BOOLEAN, todo : SUBSET Clock!HrefSet, recover : BOOLEAN, ticked : BOOLEAN]
           /\ \A h : Clock!ScopesOf(h) \subseteq x3
  BY DEF Clock!IInv, Clock!Shape, Clock!ScopesOf

(* What the properties need of the invariant. *)
LEMMA ClockCurrent ==
    ASSUME Clock!IInv PROVE Clock!OffsetCurrent /\ Clock!OwnClockKept
  <1> DEFINE clock == x1  answer == x2  known == x3  seen == x4  poll == x5  due == x6
             rediscovery == x7  since == x8
  <1>1. ASSUME Clock!Scheduled, NEW s \in known, Clock!Healthy(s)
        PROVE  seen[s] # 0 /\ clock <= seen[s] + Clock!StaleAfter
    <2> DEFINE h == Clock!Href(s)
    <2>1. h \in Clock!HrefSet /\ s \in Clock!ScopesOf(h) /\ s \in Clock!Everyone
      BY <1>1, ClockTypes, ClockConstants DEF Clock!ScopesOf
    <2>2. since[h] # 0 /\ clock - since[h] > Clock!StaleAfter /\ due # 0
      BY <1>1, ClockConstants DEF Clock!Healthy, Clock!Scheduled
    <2> HIDE DEF h
    <2>3. Clock!Renewed(s, h)
      BY <1>1, <2>1, <2>2, ClockConstants DEF Clock!IInv, Clock!Owed
    <2>4. Clock!Late \in {0, 1}
      BY DEF Clock!Late
    <2>5. ~poll.on => clock <= due
      BY <2>2, ClockConstants DEF Clock!IInv, Clock!InTime
    <2>6. Clock!Recent(s, h, clock, PollTicks + 2)
      BY <2>1, <2>3, <2>4, <2>5, ClockTypes, ClockConstants DEF Clock!Renewed, Clock!Recent
    <2> QED BY <2>1, <2>2, <2>6, ClockTypes, ClockConstants DEF Clock!Recent
  <1>2. ASSUME Clock!Scheduled, NEW s \in known, Clock!Healthy(s) PROVE Clock!Resolve(s) = s
    <2>1. seen[s] \in Nat /\ clock \in Nat
      BY <1>2, ClockTypes
    <2> QED BY <1>1, <1>2, <2>1, ClockConstants
            DEF Clock!Resolve, Clock!YieldsToGlobal, Clock!Age
  <1>3. ASSUME Clock!Scheduled, NEW s \in known,
               Clock!Healthy(s) \/ Clock!Healthy(Clock!Global)
        PROVE  Clock!Age(Clock!Resolve(s)) <= Clock!StaleAfter
    <2>0. seen[s] \in Nat /\ clock \in Nat /\ seen[Clock!Global] \in Nat
      BY <1>3, ClockTypes, ClockConstants
    <2>1. CASE Clock!Healthy(s)
      BY <1>1, <1>2, <1>3, <2>0, <2>1, ClockConstants DEF Clock!Age
    <2>2. CASE Clock!Healthy(Clock!Global)
      <3>1. Clock!Global \in known
        BY <2>2 DEF Clock!Healthy
      <3>2. seen[Clock!Global] # 0 /\ clock <= seen[Clock!Global] + Clock!StaleAfter
        BY <1>1, <1>3, <2>2, <3>1
      <3> QED BY <2>0, <3>2, ClockConstants DEF Clock!Resolve, Clock!YieldsToGlobal, Clock!Age
    <2> QED BY <1>3, <2>1, <2>2
  <1> QED BY <1>2, <1>3 DEF Clock!OffsetCurrent, Clock!OwnClockKept

(* The part starts as its invariant has it. *)
LEMMA ClockInit == ASSUME Clock!Init PROVE Clock!IInv
  <1> DEFINE clock == x1  answer == x2  known == x3  seen == x4  poll == x5  due == x6
             rediscovery == x7  since == x8
  <1>1. poll \in [on : BOOLEAN, todo : SUBSET Clock!HrefSet, recover : BOOLEAN, ticked : BOOLEAN]
    BY DEF Clock!Init, Clock!NoPoll
  <1>2. answer \in [Clock!HrefSet -> Clock!Answers] /\ due \in Nat /\ rediscovery \in BOOLEAN
    <2>1. answer = [h \in Clock!HrefSet |-> "ok"] /\ due = 1 + PollTicks /\ rediscovery = FALSE
      BY DEF Clock!Init
    <2>2. answer \in [Clock!HrefSet -> Clock!Answers]
      BY <2>1 DEF Clock!Answers
    <2>3. due = 1 + PollTicks /\ rediscovery = FALSE
      BY <2>1
    <2>4. PollTicks \in Nat
      BY ClockConstants
    <2>5. due \in Nat
      BY <2>3, <2>4
    <2>6. rediscovery \in BOOLEAN
      BY <2>3
    <2> QED BY <2>2, <2>5, <2>6
  <1>3. /\ clock \in Nat /\ known \subseteq Clock!Everyone
        /\ seen \in [Clock!Everyone -> Nat] /\ since \in [Clock!HrefSet -> Nat]
    BY DEF Clock!Init
  <1>4. Clock!Shape
    BY <1>1, <1>2, <1>3 DEF Clock!Shape
  <1>5. Clock!InTime
    BY ClockConstants DEF Clock!Init, Clock!InTime, Clock!NoPoll
  <1>6. ASSUME NEW h \in Clock!HrefSet PROVE answer[h] = "ok" /\ since[h] = 1
    BY DEF Clock!Init
  <1>7. ASSUME NEW h \in Clock!HrefSet, NEW s \in Clock!ScopesOf(h) PROVE Clock!Renewed(s, h)
    <2>1. ~poll.on /\ due = 1 + PollTicks
      BY DEF Clock!Init, Clock!NoPoll
    <2>2. since[h] = 1 /\ PollTicks \in Nat
      BY <1>6, <1>7, ClockConstants
    <2>3. Clock!Recent(s, h, due, PollTicks + 1)
      BY <2>1, <2>2 DEF Clock!Recent
    <2> QED BY <2>1, <2>3 DEF Clock!Renewed
  <1> QED BY <1>4, <1>5, <1>6, <1>7 DEF Clock!IInv, Clock!Answering, Clock!Owed

(* The next poll began when it was due; it will read every resource that   *)
(* has a scope.                                                            *)
LEMMA ClockPollBegin ==
    ASSUME Clock!IInv, Clock!PollBegin PROVE Clock!IInv'
  <1> DEFINE clock == x1  answer == x2  known == x3  seen == x4  poll == x5  due == x6
             rediscovery == x7  since == x8
  <1>1. UNCHANGED <<clock, answer, known, seen, due, rediscovery, since>> /\ ~poll.on /\ due # 0
    BY ClockConstants DEF Clock!PollBegin
  <1>0. clock = due
    BY <1>1, ClockTypes, ClockConstants DEF Clock!IInv, Clock!InTime, Clock!PollBegin
  <1>2. /\ poll'.on /\ ~poll'.ticked /\ poll'.todo = {h \in Clock!HrefSet : Clock!ScopesOf(h) # {}}
        /\ poll' \in [on : BOOLEAN, todo : SUBSET Clock!HrefSet, recover : BOOLEAN, ticked : BOOLEAN]
    BY DEF Clock!PollBegin, Clock!NoPoll
  <1>3. Clock!Shape'
    BY <1>1, <1>2 DEF Clock!IInv, Clock!Shape
  <1>4. Clock!InTime' /\ Clock!Answering'
    BY <1>1, <1>2, ClockConstants DEF Clock!IInv, Clock!InTime, Clock!Answering
  <1>5. ASSUME NEW h \in Clock!HrefSet, since[h] # Clock!Never, NEW s \in Clock!ScopesOf(h)
        PROVE  Clock!Renewed(s, h)'
    <2>1. h \in poll'.todo /\ Clock!Late' = 0 /\ seen[s] \in Nat /\ since[h] \in Nat
      BY <1>2, <1>5, ClockTypes DEF Clock!Late
    <2>2. Clock!Recent(s, h, clock, PollTicks + 1)
      BY <1>5, <1>1, <1>0, ClockConstants DEF Clock!IInv, Clock!Owed, Clock!Scheduled, Clock!Renewed
    <2>3. Clock!Recent(s, h, clock, PollTicks + 1 + 0)
      BY <2>1, <2>2, ClockTypes, ClockConstants DEF Clock!Recent
    <2> QED BY <2>1, <2>3, <1>1, <1>2 DEF Clock!Renewed, Clock!Recent
  <1>6. \A h : Clock!ScopesOf(h)' = Clock!ScopesOf(h)
    BY <1>1 DEF Clock!ScopesOf
  <1>7. Clock!Owed'
    BY <1>1, <1>5, <1>6 DEF Clock!Owed
  <1> QED BY <1>3, <1>4, <1>7 DEF Clock!IInv

(* A resource that answers is observed for all its scopes. *)
LEMMA ClockReadTime ==
    ASSUME Clock!IInv, NEW g \in Clock!HrefSet, Clock!ReadTime(g) PROVE Clock!IInv'
  <1> DEFINE clock == x1  answer == x2  known == x3  seen == x4  poll == x5  due == x6
             rediscovery == x7  since == x8
  <1>1. UNCHANGED <<clock, answer, known, due, rediscovery, since>> /\ g \in poll.todo
    BY DEF Clock!ReadTime
  <1>2. poll.on /\ ~rediscovery /\ due # 0
    BY <1>1, ClockConstants DEF Clock!IInv, Clock!InTime
  <1>3. /\ poll'.on = poll.on /\ poll'.ticked = poll.ticked /\ poll'.todo = poll.todo \ {g}
        /\ poll' \in [on : BOOLEAN, todo : SUBSET Clock!HrefSet, recover : BOOLEAN, ticked : BOOLEAN]
    BY ClockTypes DEF Clock!ReadTime, Clock!AfterHref
  <1>4. /\ seen' \in [Clock!Everyone -> Nat]
        /\ \A s \in Clock!Everyone :
               seen'[s] = IF answer[g] = "ok" /\ s \in Clock!ScopesOf(g) THEN clock ELSE seen[s]
    BY ClockTypes DEF Clock!ReadTime, Clock!Observe
  <1>5. Clock!Shape'
    BY <1>1, <1>3, <1>4 DEF Clock!IInv, Clock!Shape
  <1>6. Clock!InTime' /\ Clock!Answering'
    BY <1>1, <1>2, <1>3, ClockConstants DEF Clock!IInv, Clock!InTime, Clock!Answering
  <1>7. ASSUME NEW h \in Clock!HrefSet, since[h] # Clock!Never, NEW s \in Clock!ScopesOf(h)
        PROVE  Clock!Renewed(s, h)'
    <2>1. /\ Clock!Late' = Clock!Late /\ Clock!Late \in {0, 1} /\ s \in Clock!Everyone
          /\ since[h] \in Nat /\ seen[s] \in Nat /\ clock \in Nat
      BY <1>3, <1>7, ClockTypes DEF Clock!Late
    <2>2. answer[h] = "ok" /\ Clock!Renewed(s, h)
      BY <1>2, <1>7, ClockConstants DEF Clock!IInv, Clock!Answering, Clock!Owed, Clock!Scheduled
    <2>3. CASE h = g
      <3>1. seen'[s] = clock
        BY <2>1, <2>2, <2>3, <1>4, <1>7
      <3> QED BY <3>1, <2>1, <2>3, <1>1, <1>2, <1>3 DEF Clock!Renewed, Clock!Recent
    <2>4. CASE h # g
      <3>1. seen'[s] = clock \/ seen'[s] = seen[s]
        BY <2>1, <1>4
      <3> QED BY <3>1, <2>1, <2>2, <2>4, <1>1, <1>2, <1>3, ClockConstants
              DEF Clock!Renewed, Clock!Recent
    <2> QED BY <2>3, <2>4
  <1>8. \A h : Clock!ScopesOf(h)' = Clock!ScopesOf(h)
    BY <1>1 DEF Clock!ScopesOf
  <1>9. Clock!Owed'
    BY <1>1, <1>7, <1>8 DEF Clock!Owed
  <1> QED BY <1>5, <1>6, <1>9 DEF Clock!IInv

(* A poll ends within a tick of its reads; the next is due at its rate, if *)
(* there is one.                                                           *)
LEMMA ClockPollEnd ==
    ASSUME Clock!IInv, Clock!PollEnd PROVE Clock!IInv'
  <1> DEFINE clock == x1  answer == x2  known == x3  seen == x4  poll == x5  due == x6
             rediscovery == x7  since == x8
  <1>1. /\ UNCHANGED <<clock, answer, known, seen, rediscovery, since>> /\ poll.on /\ poll.todo = {}
        /\ due' = 0 \/ due' = clock + PollTicks
    BY ClockConstants DEF Clock!PollEnd
  <1>2. /\ ~poll'.on /\ poll'.todo = {}
        /\ poll' \in [on : BOOLEAN, todo : SUBSET Clock!HrefSet, recover : BOOLEAN, ticked : BOOLEAN]
    BY DEF Clock!PollEnd, Clock!NoPoll
  <1>3. due' \in Nat /\ due # 0
    BY <1>1, ClockTypes, ClockConstants DEF Clock!IInv, Clock!InTime
  <1>4. Clock!Shape'
    BY <1>1, <1>2, <1>3 DEF Clock!IInv, Clock!Shape
  <1>5. Clock!InTime' /\ Clock!Answering'
    BY <1>1, <1>2, ClockTypes, ClockConstants DEF Clock!IInv, Clock!InTime, Clock!Answering
  <1>6. ASSUME due' # 0, NEW h \in Clock!HrefSet, since[h] # Clock!Never, NEW s \in Clock!ScopesOf(h)
        PROVE  Clock!Renewed(s, h)'
    <2>1. Clock!Late \in {0, 1} /\ since[h] \in Nat /\ seen[s] \in Nat /\ clock \in Nat
      BY <1>6, ClockTypes DEF Clock!Late
    <2>2. Clock!Renewed(s, h)
      BY <1>3, <1>6, ClockConstants DEF Clock!IInv, Clock!Owed, Clock!Scheduled
    <2>3. Clock!Recent(s, h, clock, 1)
      BY <2>1, <2>2, <1>1 DEF Clock!Renewed, Clock!Recent
    <2> QED BY <2>1, <2>3, <1>1, <1>2, <1>6, ClockConstants DEF Clock!Renewed, Clock!Recent
  <1>7. \A h : Clock!ScopesOf(h)' = Clock!ScopesOf(h)
    BY <1>1 DEF Clock!ScopesOf
  <1>8. Clock!Owed'
    BY <1>1, <1>6, <1>7, ClockConstants DEF Clock!Owed, Clock!Scheduled
  <1> QED BY <1>4, <1>5, <1>8 DEF Clock!IInv

(* A trigger leaves no poll. *)
LEMMA ClockTrigger ==
    ASSUME Clock!IInv, Clock!Trigger PROVE Clock!IInv'
  <1> DEFINE clock == x1  answer == x2  known == x3  seen == x4  poll == x5  due == x6
             rediscovery == x7  since == x8
  <1>1. /\ UNCHANGED <<clock, answer, seen, since>> /\ due' = 0 /\ rediscovery' \in BOOLEAN
        /\ known' = {} \/ known' = known
    BY ClockTypes, ClockConstants DEF Clock!Trigger
  <1>2. /\ ~poll'.on /\ poll'.todo = {}
        /\ poll' \in [on : BOOLEAN, todo : SUBSET Clock!HrefSet, recover : BOOLEAN, ticked : BOOLEAN]
    BY DEF Clock!Trigger, Clock!NoPoll
  <1>3. Clock!Shape'
    BY <1>1, <1>2 DEF Clock!IInv, Clock!Shape
  <1>4. Clock!InTime' /\ Clock!Answering' /\ Clock!Owed'
    BY <1>1, <1>2, ClockTypes, ClockConstants
       DEF Clock!IInv, Clock!InTime, Clock!Answering, Clock!Owed, Clock!Scheduled
  <1> QED BY <1>3, <1>4 DEF Clock!IInv

(* A discovery that completes has read what answers, for the scopes it     *)
(* found; after one that raised there is no poll.                          *)
LEMMA ClockRediscover ==
    ASSUME Clock!IInv, NEW ss \in SUBSET Clock!Everyone, NEW ok \in BOOLEAN,
           Clock!Rediscover(ss, ok)
    PROVE  Clock!IInv'
  <1> DEFINE clock == x1  answer == x2  known == x3  seen == x4  poll == x5  due == x6
             rediscovery == x7  since == x8
         found == {h \in Clock!HrefSet : answer[h] = "moved" /\ \E s \in ss : Clock!Href(s) = h}
  <1>1. /\ UNCHANGED <<clock, poll>> /\ rediscovery /\ ~rediscovery' /\ rediscovery' \in BOOLEAN
        /\ known' = ss
        /\ due' = 0 \/ due' = clock + PollTicks
    BY ClockConstants DEF Clock!Rediscover
  <1>2. /\ answer' = [h \in Clock!HrefSet |-> IF h \in found THEN "ok" ELSE answer[h]]
        /\ since' = [h \in Clock!HrefSet |-> IF h \in found THEN clock ELSE since[h]]
        /\ seen' = Clock!Observe({s \in ss : answer'[Clock!Href(s)] = "ok"})
    BY DEF Clock!Rediscover
  <1> HIDE DEF found
  <1>3. ~poll.on /\ due' \in Nat
    BY <1>1, ClockTypes, ClockConstants DEF Clock!IInv, Clock!InTime
  <1>4. answer' \in [Clock!HrefSet -> Clock!Answers] /\ since' \in [Clock!HrefSet -> Nat]
    BY <1>2, ClockTypes DEF Clock!Answers
  <1>5. /\ seen' \in [Clock!Everyone -> Nat]
        /\ \A s \in ss : answer'[Clock!Href(s)] = "ok" => seen'[s] = clock
    BY <1>2, ClockTypes DEF Clock!Observe
  <1>6. Clock!Shape'
    BY <1>1, <1>3, <1>4, <1>5, ClockTypes DEF Clock!Shape
  <1>7. Clock!InTime'
    BY <1>1, <1>3, ClockTypes, ClockConstants DEF Clock!IInv, Clock!InTime
  <1>8. Clock!Answering'
    BY <1>2, ClockTypes DEF Clock!IInv, Clock!Answering
  <1>9. ASSUME due' # 0, NEW h \in Clock!HrefSet, since'[h] # Clock!Never, NEW s \in Clock!ScopesOf(h)'
        PROVE  Clock!Renewed(s, h)'
    <2>1. answer'[h] = "ok"
      BY <1>8, <1>9 DEF Clock!Answering, Clock!Never
    <2>2. s \in ss /\ Clock!Href(s) = h
      BY <1>1, <1>9 DEF Clock!ScopesOf, Clock!Href, Clock!Global, Clock!GlobalHref
    <2>3. seen'[s] = clock
      BY <2>1, <2>2, <1>5
    <2> QED BY <2>3, <1>1, <1>3, <1>9, ClockTypes, ClockConstants DEF Clock!Renewed, Clock!Recent
  <1>10. Clock!Owed'
    BY <1>9, ClockConstants DEF Clock!Owed, Clock!Scheduled, Clock!Never
  <1> QED BY <1>6, <1>7, <1>8, <1>10 DEF Clock!IInv

(* While neither the clock nor the poll moves, observations only get       *)
(* newer.                                                                  *)
LEMMA ClockNewer ==
    ASSUME Clock!IInv, UNCHANGED <<x1, x5, x6, x7>>, Clock!Shape', Clock!Answering',
           \A h \in Clock!HrefSet : x8'[h] # 0 => \A s \in Clock!ScopesOf(h)' :
               \/ x8[h] # 0 /\ s \in Clock!ScopesOf(h) /\ x8'[h] = x8[h] /\ x4'[s] = x4[s]
               \/ x8'[h] = x1 \/ x4'[s] = x1
    PROVE  Clock!IInv'
  <1> DEFINE clock == x1  answer == x2  known == x3  seen == x4  poll == x5  due == x6
             rediscovery == x7  since == x8
  <1>1. Clock!InTime' /\ due <= clock + PollTicks
    BY DEF Clock!IInv, Clock!InTime
  <1>2. ASSUME due # 0, NEW h \in Clock!HrefSet, since'[h] # 0, NEW s, s \in Clock!ScopesOf(h)'
        PROVE  Clock!Renewed(s, h)'
    <2>1. CASE since'[h] = clock \/ seen'[s] = clock
      <3>1. Clock!Late' \in {0, 1}
        BY DEF Clock!Late
      <3> QED BY <2>1, <3>1, <1>1, ClockTypes, ClockConstants DEF Clock!Renewed, Clock!Recent
    <2>2. CASE since[h] # 0 /\ s \in Clock!ScopesOf(h) /\ since'[h] = since[h] /\ seen'[s] = seen[s]
      <3>1. Clock!Renewed(s, h) /\ Clock!Late' = Clock!Late
        BY <1>2, <2>2, ClockConstants DEF Clock!IInv, Clock!Owed, Clock!Scheduled, Clock!Late
      <3> QED BY <3>1, <2>2 DEF Clock!Renewed, Clock!Recent
    <2> QED BY <1>2, <2>1, <2>2
  <1>3. Clock!Owed'
    BY <1>2, ClockConstants DEF Clock!Owed, Clock!Scheduled, Clock!Never
  <1> QED BY <1>1, <1>3 DEF Clock!IInv

(* Probes, withdrawn FSAs and resources that come or go. *)
LEMMA ClockBeside ==
    ASSUME Clock!IInv,
           \/ Clock!Probe \/ \E s \in Scopes : Clock!ForgetFsa(s)
           \/ \E h \in Clock!HrefSet, a \in Clock!Answers : Clock!Turn(h, a)
    PROVE  Clock!IInv'
  <1> DEFINE clock == x1  answer == x2  known == x3  seen == x4  poll == x5  due == x6
             rediscovery == x7  since == x8
  <1>1. CASE Clock!Probe
    <2>1. /\ UNCHANGED <<clock, answer, known, poll, due, rediscovery, since>>
          /\ seen' = Clock!Observe({Clock!Global})
      BY <1>1 DEF Clock!Probe
    <2>2. /\ seen' \in [Clock!Everyone -> Nat]
          /\ \A s \in Clock!Everyone : seen'[s] = clock \/ seen'[s] = seen[s]
      BY <2>1, ClockTypes DEF Clock!Observe
    <2>3. Clock!Shape' /\ Clock!Answering'
      BY <2>1, <2>2 DEF Clock!IInv, Clock!Shape, Clock!Answering
    <2>4. \A h : Clock!ScopesOf(h)' = Clock!ScopesOf(h) /\ Clock!ScopesOf(h) \subseteq Clock!Everyone
      BY <2>1, ClockTypes DEF Clock!ScopesOf
    <2> QED BY <2>1, <2>2, <2>3, <2>4, ClockNewer
  <1>2. ASSUME NEW f \in Scopes, Clock!ForgetFsa(f) PROVE Clock!IInv'
    <2>1. /\ UNCHANGED <<clock, answer, poll, due, rediscovery, since>>
          /\ known' = known \ {f} /\ seen' = [seen EXCEPT ![f] = 0]
      BY <1>2, ClockConstants DEF Clock!ForgetFsa
    <2>2. /\ seen' \in [Clock!Everyone -> Nat]
          /\ \A s \in Clock!Everyone \ {f} : seen'[s] = seen[s]
      BY <2>1, ClockTypes
    <2>3. Clock!Shape' /\ Clock!Answering'
      BY <2>1, <2>2, ClockTypes DEF Clock!IInv, Clock!Shape, Clock!Answering
    <2>4. ASSUME NEW h, NEW s, s \in Clock!ScopesOf(h)'
          PROVE  s \in Clock!ScopesOf(h) /\ s \in Clock!Everyone \ {f}
      BY <2>1, <2>4, ClockTypes DEF Clock!ScopesOf, Clock!Href, Clock!Global, Clock!GlobalHref
    <2> QED BY <2>1, <2>2, <2>3, <2>4, ClockNewer
  <1>3. ASSUME NEW g \in Clock!HrefSet, NEW a \in Clock!Answers, Clock!Turn(g, a) PROVE Clock!IInv'
    <2>1. /\ UNCHANGED <<clock, known, seen, poll, due, rediscovery>>
          /\ answer' = [answer EXCEPT ![g] = a]
          /\ since' = [since EXCEPT ![g] = IF a = "ok" THEN clock ELSE 0]
      BY <1>3, ClockConstants DEF Clock!Turn
    <2>2. /\ since' \in [Clock!HrefSet -> Nat] /\ answer' \in [Clock!HrefSet -> Clock!Answers]
          /\ \A h \in Clock!HrefSet \ {g} : since'[h] = since[h] /\ answer'[h] = answer[h]
          /\ answer'[g] = a /\ since'[g] = IF a = "ok" THEN clock ELSE 0
      BY <2>1, ClockTypes
    <2>3. Clock!Shape'
      BY <2>1, <2>2 DEF Clock!IInv, Clock!Shape
    <2>4. Clock!Answering'
      BY <2>1, <2>2, ClockConstants DEF Clock!IInv, Clock!Answering
    <2>5. \A h : Clock!ScopesOf(h)' = Clock!ScopesOf(h)
      BY <2>1 DEF Clock!ScopesOf
    <2>6. \A h \in Clock!HrefSet :
              since'[h] # 0 => since'[h] = clock \/ (since[h] # 0 /\ since'[h] = since[h])
      BY <2>2
    <2> QED BY <2>1, <2>3, <2>4, <2>5, <2>6, ClockNewer
  <1> QED BY <1>1, <1>2, <1>3

(* Time passes up to the next poll, and once during one. *)
LEMMA ClockTick ==
    ASSUME Clock!IInv, Clock!Tick PROVE Clock!IInv'
  <1> DEFINE clock == x1  answer == x2  known == x3  seen == x4  poll == x5  due == x6
             rediscovery == x7  since == x8
  <1>1. /\ UNCHANGED <<answer, known, seen, due, rediscovery, since>> /\ clock' = clock + 1
        /\ (poll.on => ~poll.ticked) /\ (~poll.on /\ due # 0 => clock < due)
    BY ClockConstants DEF Clock!Tick
  <1>2. /\ poll'.on = poll.on /\ poll'.ticked = poll.on /\ poll'.todo = poll.todo
        /\ poll' \in [on : BOOLEAN, todo : SUBSET Clock!HrefSet, recover : BOOLEAN, ticked : BOOLEAN]
    BY ClockTypes DEF Clock!Tick
  <1>3. clock' \in Nat
    BY <1>1, ClockTypes
  <1>4. Clock!Shape'
    BY <1>1, <1>2, <1>3 DEF Clock!IInv, Clock!Shape
  <1>5. Clock!InTime' /\ Clock!Answering'
    BY <1>1, <1>2, ClockTypes, ClockConstants DEF Clock!IInv, Clock!InTime, Clock!Answering
  <1>6. ASSUME due # 0, NEW h \in Clock!HrefSet, since[h] # Clock!Never, NEW s \in Clock!ScopesOf(h)
        PROVE  Clock!Renewed(s, h)'
    <2>1. Clock!Renewed(s, h) /\ since[h] \in Nat /\ seen[s] \in Nat
      BY <1>6, ClockTypes, ClockConstants DEF Clock!IInv, Clock!Owed, Clock!Scheduled
    <2>2. CASE poll.on
      <3>1. Clock!Late = 0 /\ Clock!Late' = 1
        BY <2>2, <1>1, <1>2 DEF Clock!Late
      <3> QED BY <3>1, <2>1, <2>2, <1>1, <1>2, ClockTypes, ClockConstants
              DEF Clock!Renewed, Clock!Recent
    <2>3. CASE ~poll.on
      BY <2>1, <2>3, <1>1, <1>2 DEF Clock!Renewed, Clock!Recent
    <2> QED BY <2>2, <2>3, ClockTypes
  <1>7. \A h : Clock!ScopesOf(h)' = Clock!ScopesOf(h)
    BY <1>1 DEF Clock!ScopesOf
  <1>8. Clock!Owed'
    BY <1>1, <1>6, <1>7, ClockConstants DEF Clock!Owed, Clock!Scheduled
  <1> QED BY <1>4, <1>5, <1>8 DEF Clock!IInv

(* Every step of the part keeps its invariant. *)
LEMMA ClockStep ==
    ASSUME Clock!IInv, [Clock!Next]_(Clock!vars) PROVE Clock!IInv'
  <1>1. CASE UNCHANGED Clock!vars
    <2>1. UNCHANGED <<x1, x2, x3, x4, x5, x6, x7, x8>>
      BY <1>1 DEF Clock!vars
    <2>2. Clock!Shape' /\ Clock!Answering'
      BY <2>1 DEF Clock!IInv, Clock!Shape, Clock!Answering
    <2>3. \A h : Clock!ScopesOf(h)' = Clock!ScopesOf(h)
      BY <2>1 DEF Clock!ScopesOf
    <2> QED BY <2>1, <2>2, <2>3, ClockNewer
  <1>2. CASE Clock!Next
    BY <1>2, ClockPollBegin, ClockReadTime, ClockPollEnd, ClockTrigger, ClockRediscover, ClockBeside,
       ClockTick DEF Clock!Next
  <1> QED BY <1>1, <1>2

(* While the client polls Time, the events of an FSA are timed by an       *)
(* offset no older than three polls (and the floor) as long as its own     *)
(* Time resource or the server's answers, and by its own while that        *)
(* answers: for any FSAs, hrefs and poll rate, and however resources fail, *)
(* move and come back, FSAs are withdrawn and rediscoveries run (_resolve, *)
(* _yields_to_global, _do_poll_time).                                      *)
THEOREM OffsetsCurrent == Spec => []ClockTrue
  <1> DEFINE Inv == part = "clock" => Clock!IInv
  <1>1. Init => Inv
    BY PartInit, ClockInit
  <1>2. Inv /\ [Next]_vars => Inv'
    BY PartStep, ClockStep
  <1>3. Inv => ClockTrue
    BY ClockCurrent DEF ClockTrue
  <1> QED BY <1>1, <1>2, <1>3, PTL DEF Spec
=============================================================================
