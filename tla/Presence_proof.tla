---------------------------- MODULE Presence_proof ----------------------------
(***************************************************************************)
(* Proofs about four more parts that MCServices composes, those by which   *)
(* the client is on the network, for all values of their constants, as     *)
(* Services_proof has them of the others: DnsDiscovery, Registration,      *)
(* Advertiser and Shutdown.                                                *)
(***************************************************************************)
EXTENDS MCServices, FiniteSetTheorems, WellFoundedInduction, TLAPS

-----------------------------------------------------------------------------
(* A behaviour is one of one part, from its initial states by its steps.   *)

(* Initially: the parts proved about start in their own initial states. *)
LEMMA PresenceInit ==
    ASSUME Init
    PROVE  /\ part = "dns" => Finding!Init
           /\ part = "advertiser" => Advertising!Init
           /\ part = "registration" => Registering!Init
           /\ part = "shutdown" => Stopping!Init
  BY SMT DEF Init

(* A step of the composition leaves the choice of the part alone and is a  *)
(* step of that part, or none.                                             *)
LEMMA PresenceStep ==
    ASSUME [Next]_vars
    PROVE  /\ part' = part
           /\ part = "dns" => [Finding!Next]_(Finding!vars)
           /\ part = "advertiser" => [Advertising!Next]_(Advertising!vars)
           /\ part = "registration" => [Registering!Next]_(Registering!vars)
           /\ part = "shutdown" => [Stopping!Next]_(Stopping!vars)
  <1>1. CASE Next
    BY <1>1, SMT DEF Next
  <1>2. CASE UNCHANGED vars
    <2>1. /\ UNCHANGED <<part, x1, x2, x3, x4, x5, x6, x7, x8, x9>>
          /\ UNCHANGED <<x10, x11, x12, x13, x14, x15, x16, x17>>
      BY <1>2 DEF vars, from7, from8, from9, from10, from11, from12, from13, from14, from15,
                  from16, from17, from18
    <2>2. UNCHANGED Finding!vars
      BY <2>1 DEF Finding!vars
    <2>3. UNCHANGED Advertising!vars
      BY <2>1 DEF Advertising!vars, Advertising!plan, Advertising!limits, Advertising!heard
    <2>4. UNCHANGED Registering!vars
      BY <2>1 DEF Registering!vars, Registering!client, Registering!polls, Registering!history
    <2>5. UNCHANGED Stopping!vars
      BY <2>1 DEF Stopping!vars, Stopping!redis
    <2> QED BY <2>1, <2>2, <2>3, <2>4, <2>5
  <1> QED BY <1>1, <1>2

-----------------------------------------------------------------------------
(* DnsDiscovery, Registration, Advertiser and Shutdown. *)

(* A set of naturals has a least element. *)
LEMMA LeastOf == ASSUME NEW T, T \subseteq Nat, T # {} PROVE \E x \in T : \A y \in T : x <= y
  <1>1. IsWellFoundedOn(OpToRel(<, Nat), Nat)
    BY NatLessThanWellFounded
  <1>2. \A x, y \in Nat : y < x => <<y, x>> \in OpToRel(<, Nat)
    BY DEF OpToRel
  <1>3. PICK R : IsWellFoundedOn(R, Nat) /\ \A x, y \in Nat : y < x => <<y, x>> \in R
    <2> WITNESS OpToRel(<, Nat)
    <2> QED BY <1>1, <1>2, Zenon
  <1>4. \E x \in T : \A y \in T : ~(<<y, x>> \in R)
    BY <1>3, WFMin
  <1>5. PICK x \in T : \A y \in T : ~(<<y, x>> \in R)
    BY <1>4
  <1>6. \A y \in T : ~(y < x)
    BY <1>3, <1>5, Zenon
  <1>7. x \in Nat /\ \A y \in T : y \in Nat
    OBVIOUS
  <1>8. \A y \in T : x <= y
    BY <1>6, <1>7
  <1> QED BY <1>8

LEMMA FindingInit == ASSUME Finding!Init PROVE Finding!IInv
  <1>1. /\ x1 = 1 /\ x3 = "ptr" /\ x4 = <<>> /\ x5 = {} /\ x6 = {} /\ x7 = [q \in 1..2 |-> {}]
    BY DEF Finding!Init
  <1>2. x4 \in Seq(Finding!Messages) /\ x7 \in [1..2 -> SUBSET Finding!Names]
    BY <1>1
  <1>3. Finding!RepliesRight
    BY <1>1 DEF Finding!RepliesRight
  <1>4. Finding!NamedRight /\ Finding!FoundRight /\ Finding!OwnNotLost
    BY <1>1 DEF Finding!NamedRight, Finding!FoundRight, Finding!OwnNotLost
  <1> QED BY <1>1, <1>2, <1>3, <1>4 DEF Finding!IInv

(* A datagram comes. *)
LEMMA FindingHears ==
    ASSUME Finding!IInv, NEW s \in Finding!Names, Finding!Reply(s) \/ Finding!Stray(s)
    PROVE  Finding!IInv'
  <1> DEFINE question == x1  round == x3  inbox == x4  named == x5  found == x6  heard == x7
  <1>1. PICK m \in Finding!Messages :
           /\ inbox' = Append(inbox, m) /\ m.server = s
           /\ m.solicited => /\ Finding!Asked(s)
                             /\ m.full = (round = "any" \/ Servers[s].volunteers)
    <2>1. CASE Finding!Reply(s)
      <3> DEFINE m == [server |-> s, solicited |-> TRUE, full |-> round = "any" \/ Servers[s].volunteers]
      <3>1. m \in Finding!Messages /\ inbox' = Append(inbox, m) /\ m.server = s /\ Finding!Asked(s)
        BY <2>1 DEF Finding!Reply, Finding!Messages
      <3> QED BY <3>1
    <2>2. CASE Finding!Stray(s)
      <3> DEFINE m == [server |-> s, full |-> TRUE, solicited |-> FALSE]
      <3>1. m \in Finding!Messages /\ inbox' = Append(inbox, m) /\ m.server = s /\ ~m.solicited
        BY <2>2 DEF Finding!Stray, Finding!Messages
      <3> QED BY <3>1
    <2> QED BY <2>1, <2>2
  <1>2. UNCHANGED <<question, round, named, found, heard>>
    BY DEF Finding!Reply, Finding!Stray
  <1>3. inbox \in Seq(Finding!Messages)
    BY DEF Finding!IInv
  <1>4. inbox' \in Seq(Finding!Messages)
    BY <1>1, <1>3
  <1>5. Finding!RepliesRight'
    <2>1. SUFFICES ASSUME NEW i \in 1..Len(inbox'), inbox'[i].solicited
          PROVE  /\ (question = 1 => Servers[inbox'[i].server].own)
                 /\ (round = "ptr" => inbox'[i].full = Servers[inbox'[i].server].volunteers)
                 /\ (round = "any" => \E n \in named : n.server = inbox'[i].server /\ ~n.full)
      BY <1>2 DEF Finding!RepliesRight
    <2>2. CASE i \in 1..Len(inbox)
      <3>1. inbox'[i] = inbox[i]
        BY <2>2, <1>1, <1>3
      <3> QED BY <2>1, <2>2, <3>1 DEF Finding!IInv, Finding!RepliesRight
    <2>3. CASE i \notin 1..Len(inbox)
      <3>1. inbox'[i] = m
        BY <2>3, <1>1, <1>3
      <3>2. Finding!Asked(s) /\ m.full = (round = "any" \/ Servers[s].volunteers)
        BY <2>1, <3>1, <1>1
      <3>3. Servers[s].volunteers \in BOOLEAN
        BY PartsAssumption DEF Finding!Names
      <3>4. round = "ptr" => m.full = Servers[s].volunteers
        BY <3>2, <3>3
      <3> QED BY <3>1, <3>2, <3>4, <1>1 DEF Finding!Asked
    <2> QED BY <2>2, <2>3
  <1>6. Finding!NamedRight' /\ Finding!FoundRight' /\ Finding!OwnNotLost'
    BY <1>2 DEF Finding!IInv, Finding!NamedRight, Finding!FoundRight, Finding!OwnNotLost,
                Finding!ServerFromRecords, Finding!Endpoint
  <1> QED BY <1>2, <1>4, <1>5, <1>6 DEF Finding!IInv

(* What the deadline of a round leaves: the servers described are heard. *)
LEMMA FindingHeard ==
    ASSUME Finding!IInv, Finding!Hear
    PROVE  /\ x7' \in [1..2 -> SUBSET Finding!Names]
           /\ \A s \in Finding!Names : Finding!Described(s) => s \in x7'[x1]
           /\ \A q \in 1..2 : x7[q] \subseteq x7'[q]
           /\ \A q \in 1..2 : q # x1 => x7'[q] = x7[q]
           /\ x7'[x1] # {} => x7[x1] # {} \/ \E s \in Finding!Names : Finding!Described(s)
  <1> DEFINE question == x1  heard == x7  D == {s \in Finding!Names : Finding!Described(s)}
  <1>1. heard' = [heard EXCEPT ![question] = @ \cup D]
    BY DEF Finding!Hear
  <1>2. heard \in [1..2 -> SUBSET Finding!Names] /\ question \in 1..2 /\ D \subseteq Finding!Names
    BY DEF Finding!IInv
  <1>3. /\ heard' \in [1..2 -> SUBSET Finding!Names]
        /\ heard'[question] = heard[question] \cup D
        /\ \A q \in 1..2 : q # question => heard'[q] = heard[q]
    <2> HIDE DEF D
    <2> QED BY <1>1, <1>2
  <1> QED BY <1>2, <1>3

(* The servers a transport's answers add are of its answers, and some are  *)
(* added if there was none.                                                *)
LEMMA FindingMerges ==
    ASSUME Finding!IInv, NEW new, new \subseteq Finding!NamedInstances,
           \A m, n \in new : m.at = n.at => m = n
    PROVE  /\ \A s \in Finding!Merge(new) : s \in x6 \/ \E m \in new : m.server = s
           /\ \A s, o \in Finding!Merge(new) : Finding!Endpoint(s) = Finding!Endpoint(o) => s = o
           /\ x6 # {} \/ new # {} => Finding!Merge(new) # {}
  <1> DEFINE found == x6
             Added(m) == /\ \A s \in found : Finding!Endpoint(s) # Finding!Endpoint(m.server)
                         /\ \A n \in new : n.at < m.at => Finding!Endpoint(n.server) # Finding!Endpoint(m.server)
  <1>1. \A s : s \in Finding!Merge(new) <=> s \in found \/ \E m \in new : Added(m) /\ m.server = s
    BY DEF Finding!Merge
  <1>2. ASSUME NEW s \in Finding!Merge(new), NEW o \in Finding!Merge(new),
               Finding!Endpoint(s) = Finding!Endpoint(o)
        PROVE  s = o
    <2>1. CASE s \in found /\ o \in found
      BY <2>1, <1>2 DEF Finding!IInv, Finding!FoundRight
    <2>2. CASE s \in found /\ o \notin found
      BY <2>2, <1>1, <1>2
    <2>3. CASE s \notin found /\ o \in found
      BY <2>3, <1>1, <1>2
    <2>4. CASE s \notin found /\ o \notin found
      <3>1. PICK m \in new : Added(m) /\ m.server = s
        BY <2>4, <1>1
      <3>2. PICK n \in new : Added(n) /\ n.server = o
        BY <2>4, <1>1
      <3>3. ~(n.at < m.at) /\ ~(m.at < n.at)
        BY <3>1, <3>2, <1>2
      <3>4. m.at \in Nat /\ n.at \in Nat
        BY DEF Finding!NamedInstances
      <3>5. m.at = n.at
        BY <3>3, <3>4
      <3> QED BY <3>1, <3>2, <3>5
    <2> QED BY <2>1, <2>2, <2>3, <2>4
  <1>3. ASSUME new # {}, found = {} PROVE Finding!Merge(new) # {}
    <2> DEFINE ats == {m.at : m \in new}
    <2>1. ats \subseteq Nat /\ ats # {}
      BY <1>3 DEF Finding!NamedInstances
    <2> HIDE DEF ats
    <2>2. PICK x \in ats : \A y \in ats : x <= y
      BY <2>1, LeastOf
    <2>3. PICK m \in new : m.at = x
      BY DEF ats
    <2>4. \A n \in new : n.at \in ats /\ n.at \in Nat
      BY DEF ats, Finding!NamedInstances
    <2>5. \A n \in new : ~(n.at < m.at)
      BY <2>2, <2>3, <2>4
    <2>6. Added(m)
      BY <1>3, <2>5
    <2> QED BY <1>1, <2>6
  <1> QED BY <1>1, <1>2, <1>3

LEMMA FindingNext ==
    ASSUME Finding!IInv, Finding!Hear, NEW new, new \subseteq Finding!NamedInstances,
           \A m, n \in new : m.at = n.at => m = n,
           \A m \in new : /\ Servers[m.server].usable /\ m.server \in x7'[x1]
                          /\ x1 = 1 => Servers[m.server].own,
           x1 = 1 /\ x7'[1] # {} => x6 # {} \/ new # {},
           Finding!NextTransport(Finding!Merge(new))
    PROVE  Finding!IInv'
  <1> DEFINE question == x1  round == x3  inbox == x4  named == x5  found == x6  heard == x7
             fs == Finding!Merge(new)
  <1>1. /\ found' = fs /\ named' = {} /\ inbox' = <<>> /\ round' \in {"ptr", "done"}
        /\ question' = question \/ (question = 1 /\ question' = 2 /\ fs = {})
    BY DEF Finding!NextTransport, Finding!AsksAny
  <1>2. /\ heard' \in [1..2 -> SUBSET Finding!Names] /\ \A q \in 1..2 : heard[q] \subseteq heard'[q]
        /\ \A q \in 1..2 : q # question => heard'[q] = heard[q]
    BY FindingHeard
  <1>3. /\ \A s \in fs : s \in found \/ \E m \in new : m.server = s
        /\ \A s, o \in fs : Finding!Endpoint(s) = Finding!Endpoint(o) => s = o
        /\ found # {} \/ new # {} => fs # {}
    BY FindingMerges
  <1> HIDE DEF fs
  <1>4. question \in 1..2 /\ found \subseteq Finding!Names
    BY DEF Finding!IInv
  <1>5. \A s \in fs : /\ Servers[s].usable /\ s \in heard'[question] /\ s \in Finding!Names
                      /\ question = 1 => Servers[s].own
    <2>1. \A s \in found : /\ Servers[s].usable /\ s \in heard[question]
                           /\ question = 1 => Servers[s].own
      BY DEF Finding!IInv, Finding!FoundRight
    <2>2. \A m \in new : m.server \in Finding!Names
      BY DEF Finding!NamedInstances
    <2> QED BY <2>1, <2>2, <1>2, <1>3, <1>4
  <1>6. Finding!FoundRight'
    <2>1. CASE question' = question
      BY <2>1, <1>1, <1>3, <1>5 DEF Finding!FoundRight, Finding!Endpoint
    <2>2. CASE fs = {}
      BY <2>2, <1>1 DEF Finding!FoundRight
    <2> QED BY <2>1, <2>2, <1>1
  <1>7. Finding!OwnNotLost'
    <2>1. question = 2 => heard'[1] = {}
      BY <1>2, <1>4 DEF Finding!IInv, Finding!OwnNotLost
    <2>2. question = 1 /\ fs = {} => heard'[1] = {}
      BY <1>3
    <2>3. question' = 2 => heard'[1] = {}
      BY <2>1, <2>2, <1>1
    <2>4. question' = 1 /\ heard'[1] # {} => found' # {}
      BY <2>1, <2>2, <1>1, <1>4
    <2> QED BY <2>3, <2>4 DEF Finding!OwnNotLost
  <1>8. Finding!RepliesRight' /\ Finding!NamedRight'
    BY <1>1 DEF Finding!RepliesRight, Finding!NamedRight
  <1>9. /\ question' \in 1..2 /\ inbox' \in Seq(Finding!Messages) /\ found' \subseteq Finding!Names
        /\ named' \subseteq Finding!NamedInstances
    BY <1>1, <1>4, <1>5
  <1> QED BY <1>1, <1>2, <1>6, <1>7, <1>8, <1>9 DEF Finding!IInv

LEMMA FindingInstances ==
    ASSUME Finding!IInv
    PROVE  /\ Finding!Instances \subseteq Finding!NamedInstances
           /\ \A m, n \in Finding!Instances : m.at = n.at => m = n
           /\ \A m \in Finding!Instances :
                 /\ x1 = 1 => Servers[m.server].own
                 /\ Finding!ServerFromRecords(m) => Finding!Described(m.server) /\ Servers[m.server].usable
  <1> DEFINE inbox == x4
             Numbered(i) == [server |-> inbox[i].server, full |-> inbox[i].full, at |-> i]
  <1>1. \A m \in Finding!Instances : \E i \in Finding!Decoded : m = Numbered(i)
    BY DEF Finding!Instances, Finding!Considered, Finding!First
  <1>2. inbox \in Seq(Finding!Messages)
    BY DEF Finding!IInv
  <1>3. \A i \in Finding!Decoded : i \in 1..Len(inbox) /\ i \in Nat /\ inbox[i] \in Finding!Messages /\ inbox[i].solicited
    BY <1>2 DEF Finding!Decoded, Finding!Solicited
  <1>4. Finding!Instances \subseteq Finding!NamedInstances
    <2>1. ASSUME NEW i \in Finding!Decoded PROVE Numbered(i) \in Finding!NamedInstances
      BY <2>1, <1>3 DEF Finding!NamedInstances, Finding!Messages
    <2> QED BY <2>1, <1>1
  <1>5. \A m, n \in Finding!Instances : m.at = n.at => m = n
    BY <1>1
  <1>6. ASSUME NEW i \in Finding!Decoded
        PROVE  /\ x1 = 1 => Servers[Numbered(i).server].own
               /\ Finding!ServerFromRecords(Numbered(i)) => Finding!Described(Numbered(i).server) /\ Servers[Numbered(i).server].usable
    <2>1. x1 = 1 => Servers[inbox[i].server].own
      BY <1>3 DEF Finding!IInv, Finding!RepliesRight
    <2>2. Finding!ServerFromRecords(Numbered(i)) => Finding!ServerFromRecords(inbox[i]) /\ Servers[inbox[i].server].usable
      BY DEF Finding!ServerFromRecords
    <2>3. Finding!ServerFromRecords(inbox[i]) => Finding!Described(inbox[i].server)
      BY <1>3 DEF Finding!Described
    <2> QED BY <2>1, <2>2, <2>3
  <1>7. \A m \in Finding!Instances :
                 /\ x1 = 1 => Servers[m.server].own
                 /\ Finding!ServerFromRecords(m) => Finding!Described(m.server) /\ Servers[m.server].usable
    <2> HIDE DEF Numbered
    <2> QED BY <1>1, <1>6
  <1> QED BY <1>4, <1>5, <1>7

(* A server that holds the EndDevice and describes itself in the first     *)
(* round is among the instances considered, unless more hold one than      *)
(* discover considers.                                                     *)
LEMMA FindingOwn ==
    ASSUME Finding!IInv, x1 = 1, x3 = "ptr", NEW s \in Finding!Names, Finding!Described(s),
           Cardinality({o \in DOMAIN Servers : Servers[o].own}) <= MAX_INSTANCES
    PROVE  \E m \in Finding!Instances : Finding!ServerFromRecords(m)
  <1> DEFINE inbox == x4  Own == {o \in DOMAIN Servers : Servers[o].own}
             Named == {i \in Finding!Decoded : inbox[i].server = s}
  <1>1. inbox \in Seq(Finding!Messages)
    BY DEF Finding!IInv
  <1>2. \A i \in Finding!Decoded :
           /\ i \in 1..Len(inbox) /\ i \in Nat /\ inbox[i] \in Finding!Messages /\ inbox[i].solicited
           /\ inbox[i].server \in Own /\ inbox[i].full = Servers[inbox[i].server].volunteers
    <2>1. \A i \in Finding!Decoded : i \in 1..Len(inbox) /\ i \in Nat /\ inbox[i] \in Finding!Messages /\ inbox[i].solicited
      BY <1>1 DEF Finding!Decoded, Finding!Solicited
    <2>2. \A i \in Finding!Decoded : inbox[i].server \in DOMAIN Servers
      BY <2>1 DEF Finding!Messages, Finding!Names
    <2> QED BY <2>1, <2>2 DEF Finding!IInv, Finding!RepliesRight
  <1>3. PICK i \in 1..Len(inbox) : inbox[i].solicited /\ inbox[i].server = s /\ Finding!ServerFromRecords(inbox[i])
    BY DEF Finding!Described
  <1>4. i \in Named
    BY <1>3 DEF Finding!Decoded, Finding!Solicited
  <1>5. PICK j \in Named : \A k \in Named : j <= k
    <2>1. Named \subseteq Nat /\ Named # {}
      BY <1>2, <1>4
    <2> HIDE DEF Named
    <2> QED BY <2>1, LeastOf
  <1>6. j \in Finding!Decoded /\ inbox[j].server = s /\ j \in Nat
    BY <1>2
  <1>7. Finding!ServerFromRecords(inbox[j])
    <2>1. i \in Finding!Decoded
      BY <1>4
    <2>2. inbox[j].full = inbox[i].full
      BY <2>1, <1>2, <1>3, <1>6
    <2> QED BY <2>2, <1>3, <1>6 DEF Finding!ServerFromRecords
  <1>8. j \in Finding!First
    <2>1. ASSUME NEW k \in Finding!Decoded, k < j PROVE inbox[k].server # inbox[j].server
      <3>1. k \in Named => j <= k /\ k \in Nat
        BY <1>5, <1>2
      <3> QED BY <2>1, <3>1, <1>6
    <2> QED BY <2>1, <1>6 DEF Finding!First
  <1> DEFINE Before == {k \in Finding!First : k <= j}
             By == [k \in Before |-> inbox[k].server]
  <1>9. By \in Injection(Before, Own)
    <2>1. \A k \in Before : k \in Finding!Decoded /\ k \in Nat
      BY <1>2 DEF Finding!First
    <2>2. By \in [Before -> Own]
      BY <2>1, <1>2
    <2>3. ASSUME NEW k \in Before, NEW l \in Before, inbox[k].server = inbox[l].server PROVE k = l
      <3>1. ~(k < l) /\ ~(l < k)
        BY <2>1, <2>3 DEF Finding!First
      <3> QED BY <2>1, <3>1
    <2>4. IsInjective(By)
      BY <2>3 DEF IsInjective
    <2> QED BY <2>2, <2>4 DEF Injection
  <1>10. IsFiniteSet(Own)
    BY PartsAssumption, FS_Subset
  <1>11. IsFiniteSet(Before) /\ Cardinality(Before) <= Cardinality(Own)
    <2> HIDE DEF Before, By, Own
    <2> QED BY <1>9, <1>10, FS_Injection
  <1>12. Cardinality(Before) <= MAX_INSTANCES
    <2>1. Cardinality(Before) \in Nat /\ Cardinality(Own) \in Nat /\ MAX_INSTANCES \in Nat
      <3> HIDE DEF Before, Own
      <3> QED BY <1>10, <1>11, FS_CardinalityType, PartsAssumption
    <2>2. Cardinality(Own) <= MAX_INSTANCES
      OBVIOUS
    <2> HIDE DEF Before, Own
    <2> QED BY <2>1, <2>2, <1>11
  <1> DEFINE m == [server |-> inbox[j].server, full |-> inbox[j].full, at |-> j]
  <1>13. m \in Finding!Instances
    <2>1. Finding!Cardinality(Before) = Cardinality(Before)
      BY DEF Finding!Cardinality, Cardinality
    <2>2. j \in Finding!Considered
      BY <1>8, <1>12, <2>1, Zenon DEF Finding!Considered
    <2> QED BY <2>2 DEF Finding!Instances
  <1>14. Finding!ServerFromRecords(m)
    BY <1>7 DEF Finding!ServerFromRecords
  <1> QED BY <1>13, <1>14

LEMMA FindingNames ==
    ASSUME Finding!IInv, Finding!NamesRead,
           Cardinality({o \in DOMAIN Servers : Servers[o].own}) <= MAX_INSTANCES
    PROVE  Finding!IInv'
  <1> DEFINE question == x1  round == x3  inbox == x4  named == x5  found == x6  heard == x7
             new == {m \in Finding!Instances : Finding!ServerFromRecords(m)}
  <1>0. round = "ptr" /\ Finding!Hear /\ named = {} /\ question \in 1..2 /\ found \subseteq Finding!Names
    BY DEF Finding!NamesRead, Finding!IInv, Finding!NamedRight
  <1>1. /\ heard' \in [1..2 -> SUBSET Finding!Names]
        /\ \A s \in Finding!Names : Finding!Described(s) => s \in heard'[question]
        /\ \A q \in 1..2 : heard[q] \subseteq heard'[q]
        /\ \A q \in 1..2 : q # question => heard'[q] = heard[q]
        /\ heard'[question] # {} => heard[question] # {} \/ \E s \in Finding!Names : Finding!Described(s)
    BY <1>0, FindingHeard
  <1>2. /\ Finding!Instances \subseteq Finding!NamedInstances
        /\ \A m, n \in Finding!Instances : m.at = n.at => m = n
        /\ \A m \in Finding!Instances :
              /\ m.server \in Finding!Names
              /\ question = 1 => Servers[m.server].own
              /\ Finding!ServerFromRecords(m) => Finding!Described(m.server) /\ Servers[m.server].usable
    BY FindingInstances DEF Finding!NamedInstances
  <1>3. question = 1 /\ heard'[1] # {} => found # {} \/ new # {}
    <2>1. question = 1 /\ heard[1] # {} => found # {}
      BY <1>0 DEF Finding!IInv, Finding!OwnNotLost
    <2>2. ASSUME question = 1, NEW s \in Finding!Names, Finding!Described(s) PROVE new # {}
      BY <2>2, <1>0, FindingOwn
    <2> QED BY <2>1, <2>2, <1>1
  <1>4. CASE named' = Finding!Instances /\ round' = "any" /\ inbox' = <<>> /\ UNCHANGED <<question, x2, found>>
    <2>1. Finding!RepliesRight'
      BY <1>4 DEF Finding!RepliesRight
    <2>2. Finding!NamedRight'
      <3>1. \A m \in Finding!Instances :
               /\ question = 1 => Servers[m.server].own
               /\ Finding!ServerFromRecords(m) => m.server \in heard'[question]
        BY <1>1, <1>2
      <3> QED BY <3>1, <1>2, <1>4 DEF Finding!NamedRight, Finding!ServerFromRecords
    <2>3. Finding!FoundRight'
      <3>1. heard[question] \subseteq heard'[question]
        BY <1>0, <1>1
      <3> QED BY <3>1, <1>4 DEF Finding!IInv, Finding!FoundRight, Finding!Endpoint
    <2>4. Finding!OwnNotLost'
      <3>1. question = 2 => heard'[1] = {}
        BY <1>0, <1>1 DEF Finding!IInv, Finding!OwnNotLost
      <3> QED BY <3>1, <1>3, <1>4 DEF Finding!OwnNotLost, Finding!ServerFromRecords
    <2>5. /\ question' \in 1..2 /\ inbox' \in Seq(Finding!Messages) /\ found' \subseteq Finding!Names
          /\ named' \subseteq Finding!NamedInstances
      BY <1>0, <1>2, <1>4
    <2> QED BY <2>1, <2>2, <2>3, <2>4, <2>5, <1>1, <1>4 DEF Finding!IInv
  <1>5. CASE Finding!NextTransport(Finding!Merge(new))
    <2>1. new \subseteq Finding!NamedInstances /\ \A m, n \in new : m.at = n.at => m = n
      BY <1>2
    <2>2. \A m \in new : /\ Servers[m.server].usable /\ m.server \in heard'[question]
                         /\ question = 1 => Servers[m.server].own
      BY <1>1, <1>2
    <2> HIDE DEF new
    <2> QED BY <2>1, <2>2, <1>0, <1>3, <1>5, FindingNext
  <1> QED BY <1>4, <1>5 DEF Finding!NamesRead

LEMMA FindingRecords ==
    ASSUME Finding!IInv, Finding!RecordsRead
    PROVE  Finding!IInv'
  <1> DEFINE question == x1  round == x3  inbox == x4  named == x5  found == x6  heard == x7
             new == {m \in named : Finding!ServerFromRecords(m) \/ (~m.full /\ Finding!Resolved(m.server))}
  <1>0. /\ round = "any" /\ Finding!Hear /\ question \in 1..2 /\ named \subseteq Finding!NamedInstances
        /\ Finding!NextTransport(Finding!Merge(new)) /\ inbox \in Seq(Finding!Messages)
    BY DEF Finding!RecordsRead, Finding!IInv
  <1>1. /\ \A s \in Finding!Names : Finding!Described(s) => s \in heard'[question]
        /\ \A q \in 1..2 : heard[q] \subseteq heard'[q]
        /\ heard'[question] # {} => heard[question] # {} \/ \E s \in Finding!Names : Finding!Described(s)
    BY <1>0, FindingHeard
  <1>2. \A s \in Finding!Names : Finding!Resolved(s) => Finding!Described(s) /\ Servers[s].usable
    BY DEF Finding!Resolved, Finding!Described, Finding!Decoded, Finding!Solicited, Finding!ServerFromRecords
  <1>3. new \subseteq Finding!NamedInstances /\ \A m, n \in new : m.at = n.at => m = n
    BY <1>0 DEF Finding!IInv, Finding!NamedRight
  <1>4. \A m \in new : /\ Servers[m.server].usable /\ m.server \in heard'[question]
                       /\ question = 1 => Servers[m.server].own
    <2>1. \A m \in named : /\ m.server \in Finding!Names
                           /\ question = 1 => Servers[m.server].own
                           /\ Finding!ServerFromRecords(m) => m.server \in heard[question] /\ Servers[m.server].usable
      BY <1>0 DEF Finding!IInv, Finding!NamedRight, Finding!ServerFromRecords, Finding!NamedInstances
    <2>2. heard[question] \subseteq heard'[question]
      BY <1>0, <1>1
    <2> QED BY <2>1, <2>2, <1>1, <1>2
  <1>5. question = 1 /\ heard'[1] # {} => found # {} \/ new # {}
    <2>1. question = 1 /\ heard[1] # {} => found # {} \/ \E m \in named : Finding!ServerFromRecords(m)
      BY DEF Finding!IInv, Finding!OwnNotLost
    <2>2. ASSUME NEW s \in Finding!Names, Finding!Described(s) PROVE new # {}
      <3>1. PICK i \in 1..Len(inbox) : inbox[i].solicited /\ inbox[i].server = s /\ Finding!ServerFromRecords(inbox[i])
        BY <2>2 DEF Finding!Described
      <3>2. PICK m \in named : m.server = s /\ ~m.full
        BY <3>1, <1>0 DEF Finding!IInv, Finding!RepliesRight
      <3>3. Finding!Resolved(s)
        BY <3>1 DEF Finding!Resolved, Finding!Decoded, Finding!Solicited
      <3> QED BY <3>2, <3>3
    <2> QED BY <2>1, <2>2, <1>1
  <1> HIDE DEF new
  <1> QED BY <1>0, <1>3, <1>4, <1>5, FindingNext

LEMMA FindingStep ==
    ASSUME Finding!IInv, [Finding!Next]_(Finding!vars),
           Cardinality({o \in DOMAIN Servers : Servers[o].own}) <= MAX_INSTANCES
    PROVE  Finding!IInv'
  <1>1. CASE UNCHANGED Finding!vars
    <2>1. UNCHANGED <<x1, x2, x3, x4, x5, x6, x7>>
      BY <1>1 DEF Finding!vars
    <2> QED BY <2>1 DEF Finding!IInv, Finding!RepliesRight, Finding!NamedRight, Finding!FoundRight,
                        Finding!OwnNotLost, Finding!ServerFromRecords, Finding!Endpoint
  <1>2. CASE Finding!Done
    BY <1>1, <1>2 DEF Finding!Done
  <1> QED BY <1>1, <1>2, FindingNames, FindingRecords, FindingHears DEF Finding!Next

LEMMA FindingChoice == Finding!IInv => Finding!ChoiceSound
  <1> DEFINE question == x1  found == x6  heard == x7
  <1> SUFFICES ASSUME Finding!IInv, x3 = "done" PROVE Finding!ChoiceSound
    BY DEF Finding!ChoiceSound
  <1>1. question \in 1..2 /\ x5 = {}
    BY DEF Finding!IInv, Finding!NamedRight
  <1>2. heard[1] # {} => question = 1 /\ found # {}
    BY <1>1 DEF Finding!IInv, Finding!OwnNotLost
  <1> QED BY <1>1, <1>2 DEF Finding!IInv, Finding!FoundRight, Finding!ChoiceSound

LEMMA RegisteringActors ==
    /\ Registering!Actors = {"start", "probe", "operator"} /\ Registering!Recoveries = {"probe", "operator"}
    /\ None \notin {"start", "probe", "operator", "notification"} /\ MaxRedis \in Nat
  BY PartsAssumption DEF Registering!Actors, Registering!Recoveries

LEMMA RegisteringInit == ASSUME Registering!Init PROVE Registering!IInv
  <1> DEFINE at == x1  on == x2  active == x4  sched == x5  armed == x6  locks == x7  redis == x8
             edevs == x9  missed == x10  outages == x11  lost == x13  swapped == x14
  <1>1. /\ at = [a \in Registering!Actors |-> IF a = "start" THEN "list" ELSE "idle"]
        /\ on = [a \in Registering!Actors |-> 0] /\ sched = 0 /\ redis = None /\ edevs \in {0, 1}
        /\ locks = [s \in 0..MaxRedis |-> None] /\ outages = 0 /\ ~active
    BY DEF Registering!Init, Registering!Free
  <1>2. Registering!Shape
    BY <1>1, RegisteringActors DEF Registering!Shape
  <1>3. Registering!LocksHeld
    BY <1>1, RegisteringActors DEF Registering!LocksHeld, Registering!Busy
  <1>4. Registering!InMode
    BY <1>1, RegisteringActors DEF Registering!InMode, Registering!Busy
  <1>5. Registering!PostsFirst /\ Registering!LeftOne
    BY <1>1, RegisteringActors DEF Registering!PostsFirst, Registering!LeftOne
  <1> QED BY <1>2, <1>3, <1>4, <1>5 DEF Registering!IInv

(* Where recoveries did not overlap, one who registers is alone. *)
LEMMA RegisteringAlone ==
    ASSUME Registering!IInv, ~x14, NEW a \in Registering!Actors, Registering!Busy(a),
           NEW b \in Registering!Actors, Registering!Busy(b)
    PROVE  a = b
  <1>1. Registering!Busy("start") => x1["start"] # "done" /\ \A r \in Registering!Recoveries : x1[r] = "idle"
    BY DEF Registering!IInv, Registering!InMode, Registering!Busy
  <1>2. ~(Registering!Busy("probe") /\ Registering!Busy("operator"))
    BY DEF Registering!IInv, Registering!LocksHeld
  <1>3. \A r \in Registering!Recoveries : x1[r] = "idle" => ~Registering!Busy(r)
    BY DEF Registering!Busy
  <1> QED BY <1>1, <1>2, <1>3, RegisteringActors

(* Steps of one who registers that leave the locks, the schedulers and the *)
(* mode alone.                                                             *)
LEMMA RegisteringMoves ==
    ASSUME Registering!IInv, NEW a \in Registering!Actors, NEW pc,
           x1[a] \in {"list", "post", "sent"}, x1' = [x1 EXCEPT ![a] = pc],
           pc \in {"list", "post", "sent", "rediscover"} \/ (a = "start" /\ pc = "done"),
           UNCHANGED <<x2, x4, x5, x6, x7, x8, x11, x14>>, x9' \in Nat
    PROVE  Registering!Shape' /\ Registering!LocksHeld' /\ Registering!InMode'
  <1> DEFINE at == x1  on == x2  active == x4  sched == x5  armed == x6  locks == x7  redis == x8
             edevs == x9  missed == x10  outages == x11  lost == x13  swapped == x14
  <1>1. /\ at' \in [Registering!Actors ->
                       {"idle", "waiting", "list", "post", "sent", "rediscover", "walk", "done"}]
        /\ \A b \in Registering!Actors \ {a} : at'[b] = at[b]
        /\ at'[a] = pc
    BY DEF Registering!IInv, Registering!Shape
  <1>2. Registering!Shape'
    BY <1>1, RegisteringActors DEF Registering!IInv, Registering!Shape
  <1>3. ASSUME NEW b \in Registering!Actors
        PROVE  /\ Registering!Busy(b)' => Registering!Busy(b)
               /\ b # "start" /\ Registering!Busy(b) => Registering!Busy(b)'
    BY <1>1 DEF Registering!Busy
  <1>4. Registering!LocksHeld'
    BY <1>3, RegisteringActors DEF Registering!IInv, Registering!LocksHeld, Registering!Shape
  <1>5. /\ at'["start"] = "done" \/ (at'["start"] # "done" /\ at["start"] # "done")
        /\ \A r \in Registering!Recoveries : at'[r] # "idle" => at[r] # "idle"
        /\ at["probe"] = "idle" => at'["probe"] = "idle"
    BY <1>1, RegisteringActors
  <1>6. redis \in Registering!Actors => at'[redis] = "walk"
    BY <1>1 DEF Registering!IInv, Registering!InMode
  <1>7. Registering!InMode'
    BY <1>3, <1>5, <1>6, RegisteringActors DEF Registering!IInv, Registering!InMode
  <1> QED BY <1>2, <1>4, <1>7

LEMMA RegisteringAsks ==
    ASSUME Registering!IInv, NEW a \in Registering!Actors,
           \/ Registering!List(a) \/ Registering!Send(a) \/ Registering!Refused(a)
           \/ Registering!Answered(a) \/ Registering!AnswerLost(a)
    PROVE  Registering!IInv'
  <1> DEFINE at == x1  on == x2  active == x4  sched == x5  armed == x6  locks == x7  redis == x8
             edevs == x9  missed == x10  outages == x11  lost == x13  swapped == x14
  <1>0. /\ at \in [Registering!Actors ->
                       {"idle", "waiting", "list", "post", "sent", "rediscover", "walk", "done"}]
        /\ edevs \in Nat
    BY DEF Registering!IInv, Registering!Shape
  <1>1. /\ UNCHANGED <<on, active, sched, armed, locks, redis, outages, swapped>> /\ edevs' \in Nat
        /\ lost => lost'
    BY <1>0 DEF Registering!List, Registering!Send, Registering!Refused, Registering!Answered,
                Registering!AnswerLost, Registering!polls, Registering!history
  <1> DEFINE pc == at'[a]
  <1>2. /\ at' = [at EXCEPT ![a] = pc] /\ at[a] \in {"list", "post", "sent"}
        /\ pc \in {"post", "sent", "rediscover"} \/ (a = "start" /\ pc = "done")
    <2>1. ASSUME NEW p, at' = [at EXCEPT ![a] = p] PROVE pc = p
      BY <2>1, <1>0
    <2>2. CASE Registering!List(a)
      BY <2>1, <2>2, Zenon DEF Registering!List, Registering!Goto
    <2>3. CASE Registering!Send(a)
      BY <2>1, <2>3 DEF Registering!Send, Registering!Goto
    <2>4. CASE Registering!Refused(a)
      BY <2>1, <2>4 DEF Registering!Refused, Registering!Goto
    <2>5. CASE Registering!Answered(a)
      BY <2>1, <2>5 DEF Registering!Answered, Registering!Goto
    <2>6. CASE Registering!AnswerLost(a)
      BY <2>1, <2>6 DEF Registering!AnswerLost, Registering!Goto
    <2> QED BY <2>2, <2>3, <2>4, <2>5, <2>6
  <1>9. \/ at[a] = "list" /\ edevs' = edevs /\ (~missed' => ~missed) /\ (pc = "post" => ~(edevs > 0))
           /\ (pc # "post" => missed' \/ edevs > 0) /\ pc # "sent"
        \/ at[a] = "post" /\ edevs' = edevs + 1 /\ (~missed' => ~missed) /\ pc = "sent"
        \/ at[a] = "post" /\ edevs' = edevs /\ missed' /\ pc # "post"
        \/ at[a] = "sent" /\ edevs' = edevs /\ (~missed' => ~missed) /\ (pc = "post" => lost')
    <2>1. ASSUME NEW p, at' = [at EXCEPT ![a] = p] PROVE pc = p
      BY <2>1, <1>0
    <2>2. CASE Registering!List(a)
      <3>1. at[a] = "list" /\ edevs' = edevs
        BY <2>2 DEF Registering!List
      <3>2. CASE Registering!Listed /\ Registering!Goto(a, IF a = "start" THEN "done" ELSE "rediscover") /\ UNCHANGED missed
        BY <3>1, <3>2, <2>1 DEF Registering!Goto, Registering!Listed
      <3>3. CASE ~Registering!Listed /\ Registering!Goto(a, "post") /\ UNCHANGED missed
        BY <3>1, <3>3, <2>1 DEF Registering!Goto, Registering!Listed
      <3>4. CASE Registering!Goto(a, IF a = "start" THEN "done" ELSE "rediscover") /\ missed' = TRUE
        BY <3>1, <3>4, <2>1 DEF Registering!Goto
      <3> QED BY <2>2, <3>2, <3>3, <3>4 DEF Registering!List
    <2>3. CASE Registering!Send(a)
      BY <2>1, <2>3 DEF Registering!Send, Registering!Goto, Registering!history
    <2>4. CASE Registering!Refused(a)
      <3>1. at[a] = "post" /\ edevs' = edevs /\ missed'
        BY <2>4 DEF Registering!Refused
      <3>2. at' = [at EXCEPT ![a] = IF a = "start" THEN "done" ELSE "rediscover"]
        BY <2>4 DEF Registering!Refused, Registering!Goto
      <3>3. pc = IF a = "start" THEN "done" ELSE "rediscover"
        BY <2>1, <3>2
      <3> QED BY <3>1, <3>3
    <2>5. CASE Registering!Answered(a)
      BY <2>1, <2>5 DEF Registering!Answered, Registering!Goto, Registering!history
    <2>6. CASE Registering!AnswerLost(a)
      BY <2>1, <2>6 DEF Registering!AnswerLost, Registering!Goto
    <2> QED BY <2>2, <2>3, <2>4, <2>5, <2>6
  <1>3. Registering!Shape' /\ Registering!LocksHeld' /\ Registering!InMode'
    BY <1>1, <1>2, RegisteringMoves
  <1>4. at'[a] = pc /\ \A b \in Registering!Actors \ {a} : at'[b] = at[b]
    BY <1>0, <1>2
  <1>5. Registering!PostsFirst'
    <2>1. SUFFICES ASSUME ~lost', ~swapped
          PROVE  edevs' <= 1 /\ \A b \in Registering!Actors : at'[b] = "post" => edevs' = 0
      BY <1>1 DEF Registering!PostsFirst
    <2>2. edevs <= 1 /\ \A b \in Registering!Actors : at[b] = "post" => edevs = 0
      BY <2>1, <1>1 DEF Registering!IInv, Registering!PostsFirst
    <2>3. \A b \in Registering!Actors \ {a} : at[b] # "post"
      BY <2>1, <1>2, RegisteringAlone DEF Registering!Busy
    <2>4. edevs' <= 1 /\ (pc = "post" => edevs' = 0)
      BY <2>1, <2>2, <1>0, <1>9
    <2> QED BY <2>3, <2>4, <1>4
  <1>6. Registering!LeftOne'
    <2>1. SUFFICES ASSUME ~missed'
          PROVE  /\ \A r \in Registering!Recoveries : at'[r] \in {"sent", "rediscover", "walk"} => edevs' >= 1
                 /\ outages > 0 /\ ~active => edevs' >= 1
      BY <1>1 DEF Registering!LeftOne
    <2>2. ~missed
      BY <2>1, <1>9
    <2>3. edevs' \in Nat /\ edevs' >= edevs
      BY <1>0, <1>9
    <2>4. pc \in {"sent", "rediscover", "walk"} => edevs' >= 1 \/ at[a] = "sent"
      BY <2>1, <1>0, <1>9
    <2>5. ASSUME NEW r \in Registering!Recoveries, at'[r] \in {"sent", "rediscover", "walk"} PROVE edevs' >= 1
      <3>1. r \in Registering!Actors
        BY RegisteringActors
      <3>2. at[r] \in {"sent", "rediscover", "walk"} => edevs >= 1
        BY <2>2 DEF Registering!IInv, Registering!LeftOne
      <3> QED BY <3>1, <3>2, <2>3, <2>4, <2>5, <1>0, <1>4
    <2>6. outages > 0 /\ ~active => edevs' >= 1
      BY <2>2, <2>3, <1>0 DEF Registering!IInv, Registering!LeftOne
    <2> QED BY <2>5, <2>6
  <1> QED BY <1>3, <1>5, <1>6 DEF Registering!IInv

(* A recovery starts under the lock of the scheduler in use. *)
LEMMA RegisteringEnters ==
    ASSUME Registering!IInv, NEW r \in Registering!Recoveries, NEW o \in Registering!Recoveries, r # o,
           NEW s \in 0..MaxRedis, x4, x7[s] = None, ~Registering!Busy(r), r = "probe" => x6,
           x1' = [x1 EXCEPT ![r] = "list"], x2' = [x2 EXCEPT ![r] = s] ,
           x7' = [x7 EXCEPT ![s] = r], x14' = (x14 \/ Registering!Beside(o, s)),
           UNCHANGED <<x4, x5, x6, x8, x9, x10, x11, x13>>
    PROVE  Registering!IInv'
  <1> DEFINE at == x1  on == x2  active == x4  sched == x5  armed == x6  locks == x7  redis == x8
             edevs == x9  missed == x10  outages == x11  lost == x13  swapped == x14
  <1>0. /\ at \in [Registering!Actors ->
                       {"idle", "waiting", "list", "post", "sent", "rediscover", "walk", "done"}]
        /\ on \in [Registering!Actors -> 0..MaxRedis]
        /\ locks \in [0..MaxRedis -> Registering!Recoveries \cup {None}]
        /\ r \in Registering!Actors /\ o \in Registering!Actors
        /\ \A q \in Registering!Recoveries : q = r \/ q = o
    BY RegisteringActors DEF Registering!IInv, Registering!Shape
  <1>1. /\ at' \in [Registering!Actors ->
                       {"idle", "waiting", "list", "post", "sent", "rediscover", "walk", "done"}]
        /\ on' \in [Registering!Actors -> 0..MaxRedis]
        /\ locks' \in [0..MaxRedis -> Registering!Recoveries \cup {None}]
        /\ at'[r] = "list" /\ on'[r] = s /\ locks'[s] = r
        /\ \A b \in Registering!Actors \ {r} : at'[b] = at[b] /\ on'[b] = on[b]
        /\ \A q \in (0..MaxRedis) \ {s} : locks'[q] = locks[q]
    BY <1>0
  <1>2. Registering!Shape'
    BY <1>0, <1>1, RegisteringActors DEF Registering!IInv, Registering!Shape
  <1>3. /\ \A q \in Registering!Recoveries : Registering!Busy(q) => locks[on[q]] = q
        /\ \A q \in 0..MaxRedis : locks[q] # None => Registering!Busy(locks[q])
    BY DEF Registering!IInv, Registering!LocksHeld
  <1>4. Registering!Busy(r)' /\ (Registering!Busy(o)' <=> Registering!Busy(o))
    BY <1>0, <1>1 DEF Registering!Busy
  <1>5. Registering!Busy(o) => on[o] # s /\ Registering!Beside(o, s)
    BY <1>0, <1>3, RegisteringActors DEF Registering!Busy, Registering!Beside
  <1>6. \A q \in Registering!Recoveries : Registering!Busy(q)' => locks'[on'[q]] = q
    BY <1>0, <1>1, <1>3, <1>4, <1>5
  <1>7. \A q \in 0..MaxRedis : locks'[q] # None => Registering!Busy(locks[q])'
    <2>1. ASSUME NEW q \in 0..MaxRedis, locks'[q] # None PROVE locks'[q] = r \/ (locks'[q] = o /\ Registering!Busy(o))
      BY <2>1, <1>0, <1>1, <1>3
    <2>2. ASSUME NEW q \in 0..MaxRedis, locks'[q] = o, Registering!Busy(o) PROVE Registering!Busy(locks[q])'
      BY <2>2, <1>4 DEF Registering!Busy
    <2>3. ASSUME NEW q \in 0..MaxRedis, locks'[q] = r PROVE Registering!Busy(locks[q])'
      BY <2>3, <1>4 DEF Registering!Busy
    <2> QED BY <2>1, <2>2, <2>3
  <1>8. Registering!Busy(o) => swapped'
    BY <1>5
  <1>9. Registering!LocksHeld'
    <2>1. Registering!Busy("probe")' /\ Registering!Busy("operator")' => swapped'
      <3>1. CASE o = "probe"
        BY <3>1, <1>4, <1>8
      <3>2. CASE o = "operator"
        BY <3>2, <1>4, <1>8
      <3> QED BY <3>1, <3>2, RegisteringActors
    <2> QED BY <1>6, <1>7, <2>1 DEF Registering!LocksHeld
  <1>10. Registering!InMode'
    <2>1. at["start"] = "done" /\ at'["start"] = "done"
      BY <1>1, RegisteringActors DEF Registering!IInv, Registering!InMode
    <2>2. redis # None => ~armed /\ at["probe"] = "idle" /\ r # "probe"
      BY DEF Registering!IInv, Registering!InMode
    <2>3. redis # None => at'["probe"] = "idle"
      BY <2>2, <1>1, RegisteringActors
    <2>4. redis \in Registering!Actors => redis # r /\ at'[redis] = "walk"
      BY <1>1 DEF Registering!IInv, Registering!InMode, Registering!Busy
    <2> QED BY <2>1, <2>2, <2>3, <2>4 DEF Registering!InMode
  <1>11. Registering!PostsFirst'
    <2>1. ~swapped' => ~swapped
      BY <1>8
    <2> QED BY <2>1, <1>1 DEF Registering!IInv, Registering!PostsFirst
  <1>12. Registering!LeftOne'
    BY <1>0, <1>1 DEF Registering!IInv, Registering!LeftOne
  <1> QED BY <1>2, <1>9, <1>10, <1>11, <1>12 DEF Registering!IInv

(* The operator waits for a lock, or is let in when there is nothing to    *)
(* recover from any more.                                                  *)
LEMMA RegisteringWaits ==
    ASSUME Registering!IInv, x1["operator"] \in {"idle", "waiting"}, NEW s \in 0..MaxRedis, NEW pc \in {"idle", "waiting"},
           pc = "waiting" => x7[s] # None,
           x1' = [x1 EXCEPT !["operator"] = pc], x2' = [x2 EXCEPT !["operator"] = s],
           UNCHANGED <<x4, x5, x6, x7, x8, x9, x10, x11, x13, x14>>
    PROVE  Registering!IInv'
  <1> DEFINE at == x1  on == x2  active == x4  sched == x5  armed == x6  locks == x7  redis == x8
             edevs == x9  missed == x10  outages == x11  lost == x13  swapped == x14
  <1>0. /\ at \in [Registering!Actors ->
                       {"idle", "waiting", "list", "post", "sent", "rediscover", "walk", "done"}]
        /\ on \in [Registering!Actors -> 0..MaxRedis]
    BY RegisteringActors DEF Registering!IInv, Registering!Shape
  <1>1. /\ at' \in [Registering!Actors ->
                       {"idle", "waiting", "list", "post", "sent", "rediscover", "walk", "done"}]
        /\ on' \in [Registering!Actors -> 0..MaxRedis]
        /\ at'["operator"] = pc /\ on'["operator"] = s
        /\ \A b \in Registering!Actors \ {"operator"} : at'[b] = at[b] /\ on'[b] = on[b]
    BY <1>0, RegisteringActors
  <1>2. Registering!Shape'
    BY <1>0, <1>1, RegisteringActors DEF Registering!IInv, Registering!Shape
  <1>3. /\ ~Registering!Busy("operator") /\ ~Registering!Busy("operator")'
        /\ \A b \in Registering!Actors \ {"operator"} : Registering!Busy(b)' <=> Registering!Busy(b)
    BY <1>1 DEF Registering!Busy
  <1>4. \A q \in 0..MaxRedis : locks[q] # None => locks[q] = "probe" /\ Registering!Busy("probe")
    BY <1>3, RegisteringActors DEF Registering!IInv, Registering!LocksHeld, Registering!Shape
  <1>5. Registering!LocksHeld'
    <2>1. \A r \in Registering!Recoveries : Registering!Busy(r)' => locks[on'[r]] = r
      BY <1>1, <1>3, RegisteringActors DEF Registering!IInv, Registering!LocksHeld
    <2>2. \A q \in 0..MaxRedis : locks[q] # None => Registering!Busy(locks[q])'
      <3>1. Registering!Busy("probe") => Registering!Busy("probe")'
        BY <1>3, RegisteringActors
      <3> QED BY <3>1, <1>4
    <2> QED BY <2>1, <2>2, <1>3 DEF Registering!LocksHeld
  <1>6. Registering!InMode'
    <2>1. pc = "waiting" => at["start"] = "done"
      <3>1. pc = "waiting" => at["probe"] # "idle"
        BY <1>4 DEF Registering!Busy
      <3> QED BY <3>1, RegisteringActors DEF Registering!IInv, Registering!InMode
    <2>2. active \/ (\E r \in Registering!Recoveries : at'[r] # "idle") => at'["start"] = "done"
      <3>1. ASSUME NEW r \in Registering!Recoveries, at'[r] # "idle" PROVE at["start"] = "done"
        <4>1. CASE r = "operator"
          BY <3>1, <4>1, <2>1, <1>1
        <4>2. CASE r = "probe"
          BY <3>1, <4>2, <1>1, RegisteringActors DEF Registering!IInv, Registering!InMode
        <4> QED BY <4>1, <4>2, RegisteringActors
      <3>2. active => at["start"] = "done"
        BY DEF Registering!IInv, Registering!InMode
      <3> QED BY <3>1, <3>2, <1>1, RegisteringActors
    <2>3. \A r \in Registering!Recoveries : Registering!Busy(r)' => active
      BY <1>3, RegisteringActors DEF Registering!IInv, Registering!InMode
    <2>4. redis # None => ~armed /\ at'["probe"] = "idle"
      BY <1>1, RegisteringActors DEF Registering!IInv, Registering!InMode
    <2>5. redis \in Registering!Actors => at'[redis] = "walk"
      BY <1>1, <1>3 DEF Registering!IInv, Registering!InMode, Registering!Busy
    <2> QED BY <2>2, <2>3, <2>4, <2>5 DEF Registering!InMode
  <1>7. Registering!PostsFirst'
    BY <1>1 DEF Registering!IInv, Registering!PostsFirst
  <1>8. Registering!LeftOne'
    BY <1>1, RegisteringActors DEF Registering!IInv, Registering!LeftOne
  <1> QED BY <1>2, <1>5, <1>6, <1>7, <1>8 DEF Registering!IInv

LEMMA RegisteringStarts ==
    ASSUME Registering!IInv, Registering!ProbeTick \/ Registering!RecoverNow \/ Registering!Locked
    PROVE  Registering!IInv'
  <1> DEFINE at == x1  on == x2  active == x4  sched == x5  armed == x6  locks == x7
  <1>0. /\ at \in [Registering!Actors ->
                       {"idle", "waiting", "list", "post", "sent", "rediscover", "walk", "done"}]
        /\ on \in [Registering!Actors -> 0..MaxRedis] /\ sched \in 0..MaxRedis
        /\ "operator" \in Registering!Recoveries /\ "probe" \in Registering!Recoveries
        /\ "operator" \in Registering!Actors /\ "probe" \in Registering!Actors
    BY RegisteringActors DEF Registering!IInv, Registering!Shape
  <1>1. CASE Registering!ProbeTick
    <2>1. ~Registering!Busy("probe")
      BY <1>1 DEF Registering!ProbeTick, Registering!Busy
    <2> QED BY <1>0, <1>1, <2>1, RegisteringEnters DEF Registering!ProbeTick, Registering!Goto
  <1>2. ASSUME NEW s \in 0..MaxRedis, x1["operator"] \in {"idle", "waiting"}, x2' = [x2 EXCEPT !["operator"] = s],
               Registering!Enters(s), x7[s] = None, UNCHANGED <<x4, x5, x6, x8, x9, x10, x11, x13>>
        PROVE  Registering!IInv'
    <2>1. CASE active
      <3>1. ~Registering!Busy("operator")
        BY <1>2 DEF Registering!Busy
      <3> QED BY <2>1, <3>1, <1>0, <1>2, RegisteringEnters DEF Registering!Enters, Registering!Goto
    <2>2. CASE ~active
      BY <2>2, <1>0, <1>2, RegisteringWaits DEF Registering!Enters, Registering!Goto
    <2> QED BY <2>1, <2>2
  <1>3. CASE Registering!RecoverNow
    <2>1. CASE Registering!Granted(sched)
      <3>1. Registering!Enters(sched) /\ x7[sched] = None
        BY <2>1, <1>3 DEF Registering!RecoverNow, Registering!Granted
      <3> QED BY <3>1, <1>0, <1>2, <1>3 DEF Registering!RecoverNow
    <2>2. CASE ~Registering!Granted(sched)
      BY <2>2, <1>0, <1>3, RegisteringWaits DEF Registering!RecoverNow, Registering!Goto, Registering!Granted
    <2> QED BY <2>1, <2>2
  <1>4. CASE Registering!Locked
    <2>1. on' = [on EXCEPT !["operator"] = on["operator"]]
      BY <1>0, <1>4 DEF Registering!Locked
    <2> QED BY <2>1, <1>0, <1>2, <1>4 DEF Registering!Locked, Registering!Granted
  <1> QED BY <1>1, <1>3, <1>4

(* One who rediscovered, or could not, leaves, and the mode may end. *)
LEMMA RegisteringEnds ==
    ASSUME Registering!IInv, NEW a \in Registering!Actors, x1[a] \in {"rediscover", "walk"},
           x1' = [x1 EXCEPT ![a] = Registering!Ends(a)], x7' = Registering!Released(a),
           UNCHANGED <<x2, x5, x9, x10, x11, x13, x14>>,
           x4' => x4, x4 /\ ~x4' => a \in Registering!Recoveries /\ x8 = a /\ x1[a] = "walk",
           (x8' = x8 /\ x8 # a) \/ x8' = None, x8' # None => ~x6'
    PROVE  Registering!IInv'
  <1> DEFINE at == x1  on == x2  active == x4  sched == x5  armed == x6  locks == x7  redis == x8
             edevs == x9  missed == x10  outages == x11  lost == x13  swapped == x14
  <1>0. /\ at \in [Registering!Actors ->
                       {"idle", "waiting", "list", "post", "sent", "rediscover", "walk", "done"}]
        /\ locks \in [0..MaxRedis -> Registering!Recoveries \cup {None}]
        /\ on \in [Registering!Actors -> 0..MaxRedis]
    BY DEF Registering!IInv, Registering!Shape
  <1>1. /\ at' \in [Registering!Actors ->
                       {"idle", "waiting", "list", "post", "sent", "rediscover", "walk", "done"}]
        /\ \A b \in Registering!Actors \ {a} : at'[b] = at[b]
        /\ a = "start" => at'[a] = "done"
        /\ a # "start" => at'[a] = "idle"
    BY <1>0 DEF Registering!Ends
  <1>2. /\ locks' \in [0..MaxRedis -> Registering!Recoveries \cup {None}]
        /\ \A s \in 0..MaxRedis : locks[s] # a => locks'[s] = locks[s]
        /\ \A s \in 0..MaxRedis : locks'[s] # None => locks'[s] = locks[s] /\ locks[s] # a
    BY <1>0 DEF Registering!Released
  <1>3. Registering!Shape'
    BY <1>0, <1>1, <1>2, RegisteringActors DEF Registering!IInv, Registering!Shape
  <1>4. /\ ~Registering!Busy(a)' /\ Registering!Busy(a)
        /\ \A b \in Registering!Actors \ {a} : Registering!Busy(b)' <=> Registering!Busy(b)
    BY <1>1 DEF Registering!Busy
  <1>5. Registering!LocksHeld'
    <2>1. ASSUME NEW r \in Registering!Recoveries, Registering!Busy(r)' PROVE locks'[on'[r]] = r
      <3>1. r # a /\ r \in Registering!Actors
        BY <2>1, <1>4, RegisteringActors
      <3>2. Registering!Busy(r)
        BY <2>1, <3>1, <1>4
      <3>3. locks[on[r]] = r /\ on[r] \in 0..MaxRedis
        BY <3>1, <3>2, <1>0 DEF Registering!IInv, Registering!LocksHeld
      <3> QED BY <3>1, <3>3, <1>2
    <2>2. ASSUME NEW s \in 0..MaxRedis, locks'[s] # None PROVE Registering!Busy(locks[s])'
      <3>1. locks'[s] = locks[s] /\ locks[s] # a /\ locks[s] # None /\ locks[s] \in Registering!Actors
        BY <2>2, <1>0, <1>2, RegisteringActors
      <3>2. Registering!Busy(locks[s])
        BY <3>1 DEF Registering!IInv, Registering!LocksHeld
      <3> QED BY <3>1, <3>2, <1>1 DEF Registering!Busy
    <2>3. Registering!Busy("probe")' /\ Registering!Busy("operator")' => swapped
      <3>1. \A b \in Registering!Actors : Registering!Busy(b)' => Registering!Busy(b)
        BY <1>4
      <3>2. Registering!Busy("probe") /\ Registering!Busy("operator") => swapped
        BY DEF Registering!IInv, Registering!LocksHeld
      <3>3. Registering!Busy("probe")' => Registering!Busy("probe")
        BY <3>1, RegisteringActors
      <3>4. Registering!Busy("operator")' => Registering!Busy("operator")
        BY <3>1, RegisteringActors
      <3> QED BY <3>2, <3>3, <3>4
    <2> QED BY <2>1, <2>2, <2>3 DEF Registering!LocksHeld
  <1>6. Registering!InMode'
    <2>1. ASSUME active' \/ (\E r \in Registering!Recoveries : at'[r] # "idle") PROVE at'["start"] = "done"
      <3>1. CASE a = "start"
        BY <3>1, <1>1
      <3>2. CASE a # "start"
        <4>1. active \/ (\E r \in Registering!Recoveries : at[r] # "idle")
          BY <2>1, <3>2, <1>1, RegisteringActors
        <4> QED BY <3>2, <4>1, <1>1, RegisteringActors DEF Registering!IInv, Registering!InMode
      <3> QED BY <3>1, <3>2
    <2>2. ASSUME NEW r \in Registering!Recoveries, Registering!Busy(r)' PROVE active'
      <3>1. r # a /\ r \in Registering!Actors
        BY <2>2, <1>4, RegisteringActors
      <3>2. Registering!Busy(r) /\ active
        BY <2>2, <3>1, <1>4 DEF Registering!IInv, Registering!InMode
      <3>3. redis # None => ~Registering!Busy("probe")
        BY DEF Registering!IInv, Registering!InMode, Registering!Busy
      <3>4. redis = a => r # "probe" /\ a # "probe"
        BY <3>2, <3>3, <1>4, RegisteringActors
      <3>5. redis = a /\ a \in Registering!Recoveries => r = a
        BY <3>4, RegisteringActors
      <3> QED BY <3>1, <3>2, <3>5
    <2>3. redis' # None => at'["probe"] = "idle"
      <3>1. redis' # None => redis # None
        OBVIOUS
      <3>2. redis # None => at["probe"] = "idle"
        BY DEF Registering!IInv, Registering!InMode
      <3> QED BY <3>1, <3>2, <1>1, RegisteringActors
    <2>4. redis' \in Registering!Actors => at'[redis'] = "walk"
      <3>1. SUFFICES ASSUME redis' \in Registering!Actors PROVE at'[redis'] = "walk"
        OBVIOUS
      <3>2. redis' = redis /\ redis # a
        BY <3>1, RegisteringActors
      <3>3. at[redis] = "walk"
        BY <3>1, <3>2 DEF Registering!IInv, Registering!InMode
      <3> QED BY <3>1, <3>2, <3>3, <1>1
    <2> QED BY <2>1, <2>2, <2>3, <2>4 DEF Registering!InMode
  <1>7. Registering!PostsFirst'
    BY <1>1 DEF Registering!IInv, Registering!PostsFirst
  <1>8. Registering!LeftOne'
    <2>1. ASSUME ~missed, NEW r \in Registering!Recoveries, at'[r] \in {"sent", "rediscover", "walk"} PROVE edevs >= 1
      <3>1. at[r] = at'[r]
        BY <2>1, <1>1, RegisteringActors
      <3> QED BY <2>1, <3>1 DEF Registering!IInv, Registering!LeftOne
    <2>2. ASSUME ~missed, outages > 0, ~active' PROVE edevs >= 1
      <3>1. CASE active
        BY <2>2, <3>1 DEF Registering!IInv, Registering!LeftOne
      <3>2. CASE ~active
        BY <2>2, <3>2 DEF Registering!IInv, Registering!LeftOne
      <3> QED BY <3>1, <3>2
    <2> QED BY <2>1, <2>2 DEF Registering!LeftOne
  <1> QED BY <1>3, <1>5, <1>6, <1>7, <1>8 DEF Registering!IInv

(* A rediscovery begins: the polls end, the probe's call with them. *)
LEMMA RegisteringReplaces ==
    ASSUME Registering!IInv, NEW caller \in {"start", "operator", "notification"},
           caller # "notification" => x1[caller] = "rediscover",
           x5 < MaxRedis, Registering!Replaces(caller), UNCHANGED <<x2, x4, x9, x10, x11, x14>>
    PROVE  Registering!IInv'
  <1> DEFINE at == x1  on == x2  active == x4  sched == x5  armed == x6  locks == x7  redis == x8
             edevs == x9  missed == x10  outages == x11  lost == x13  swapped == x14
  <1>0. /\ at \in [Registering!Actors ->
                       {"idle", "waiting", "list", "post", "sent", "rediscover", "walk", "done"}]
        /\ locks \in [0..MaxRedis -> Registering!Recoveries \cup {None}]
        /\ on \in [Registering!Actors -> 0..MaxRedis]
    BY DEF Registering!IInv, Registering!Shape
  <1>1. /\ at' \in [Registering!Actors ->
                       {"idle", "waiting", "list", "post", "sent", "rediscover", "walk", "done"}]
        /\ at'["probe"] = "idle"
        /\ \A b \in {"start", "operator"} : at'[b] = IF b = caller THEN "walk" ELSE at[b]
    BY <1>0, RegisteringActors DEF Registering!Replaces
  <1>2. /\ locks' \in [0..MaxRedis -> Registering!Recoveries \cup {None}]
        /\ \A s \in 0..MaxRedis : locks[s] # "probe" => locks'[s] = locks[s]
        /\ \A s \in 0..MaxRedis : locks'[s] # None => locks'[s] = locks[s] /\ locks[s] # "probe"
    BY <1>0 DEF Registering!Released, Registering!Replaces
  <1>3. redis' = caller /\ sched' = sched + 1 /\ ~armed' /\ (~lost' => ~lost)
    BY DEF Registering!Replaces
  <1>4. Registering!Shape'
    <2>1. at'["start"] # "idle" /\ \A r \in Registering!Recoveries : at'[r] # "done"
      BY <1>1, RegisteringActors DEF Registering!IInv, Registering!Shape
    <2>2. sched' \in 0..MaxRedis
      BY <1>3, RegisteringActors DEF Registering!IInv, Registering!Shape
    <2> QED BY <2>1, <2>2, <1>0, <1>1, <1>2, <1>3, RegisteringActors DEF Registering!IInv, Registering!Shape
  <1>5. /\ ~Registering!Busy("probe")'
        /\ \A b \in {"start", "operator"} : Registering!Busy(b)' <=> Registering!Busy(b)
    BY <1>1 DEF Registering!Busy
  <1>6. Registering!LocksHeld'
    <2>1. ASSUME NEW r \in Registering!Recoveries, Registering!Busy(r)' PROVE locks'[on'[r]] = r
      <3>1. r = "operator" /\ Registering!Busy("operator")
        BY <2>1, <1>5, RegisteringActors
      <3>2. locks[on[r]] = r /\ on[r] \in 0..MaxRedis
        BY <3>1, <1>0, RegisteringActors DEF Registering!IInv, Registering!LocksHeld
      <3> QED BY <3>1, <3>2, <1>2
    <2>2. ASSUME NEW s \in 0..MaxRedis, locks'[s] # None PROVE Registering!Busy(locks[s])'
      <3>1. locks'[s] = "operator" /\ locks[s] = "operator"
        BY <2>2, <1>0, <1>2, RegisteringActors
      <3>2. Registering!Busy(locks[s])
        BY <3>1, RegisteringActors DEF Registering!IInv, Registering!LocksHeld
      <3> QED BY <3>1, <3>2, <1>5 DEF Registering!Busy
    <2> QED BY <2>1, <2>2, <1>5 DEF Registering!LocksHeld
  <1>7. Registering!InMode'
    <2>1. ASSUME active \/ (\E r \in Registering!Recoveries : at'[r] # "idle") PROVE at'["start"] = "done"
      <3>1. active \/ at["operator"] # "idle"
        BY <2>1, <1>1, RegisteringActors
      <3>2. at["start"] = "done"
        BY <3>1, RegisteringActors DEF Registering!IInv, Registering!InMode
      <3> QED BY <3>2, <1>1
    <2>2. \A r \in Registering!Recoveries : Registering!Busy(r)' => active
      BY <1>5, RegisteringActors DEF Registering!IInv, Registering!InMode
    <2>3. redis' \in Registering!Actors => at'[redis'] = "walk"
      BY <1>1, <1>3, RegisteringActors
    <2> QED BY <2>1, <2>2, <2>3, <1>1, <1>3 DEF Registering!InMode
  <1>8. Registering!PostsFirst'
    <2>1. \A b \in Registering!Actors : at'[b] = "post" => at[b] = "post"
      BY <1>1, RegisteringActors
    <2> QED BY <2>1, <1>3 DEF Registering!IInv, Registering!PostsFirst
  <1>9. Registering!LeftOne'
    <2>1. \A r \in Registering!Recoveries :
             at'[r] \in {"sent", "rediscover", "walk"} => at[r] \in {"sent", "rediscover", "walk"}
      BY <1>1, RegisteringActors
    <2> QED BY <2>1 DEF Registering!IInv, Registering!LeftOne
  <1> QED BY <1>4, <1>6, <1>7, <1>8, <1>9 DEF Registering!IInv

LEMMA RegisteringOutage == ASSUME Registering!IInv, Registering!Outage PROVE Registering!IInv'
  <1> DEFINE at == x1  on == x2  active == x4  sched == x5  armed == x6  locks == x7  redis == x8
             edevs == x9  missed == x10  outages == x11  lost == x13  swapped == x14
  <1>1. /\ UNCHANGED <<at, on, sched, armed, locks, redis, lost, swapped>>
        /\ ~active /\ active' /\ at["start"] = "done" /\ outages' = outages + 1 /\ edevs' \in {0, edevs}
    BY DEF Registering!Outage, Registering!client, Registering!polls
  <1>2. edevs \in Nat /\ outages \in Nat
    BY DEF Registering!IInv, Registering!Shape
  <1>3. \A r \in Registering!Recoveries : at[r] \notin {"list", "post", "sent", "rediscover", "walk"}
    BY <1>1 DEF Registering!IInv, Registering!InMode, Registering!Busy
  <1>4. edevs' \in Nat /\ outages' \in Nat
    BY <1>1, <1>2
  <1>5. Registering!Shape'
    BY <1>1, <1>4 DEF Registering!IInv, Registering!Shape
  <1>6. Registering!LocksHeld'
    BY <1>1 DEF Registering!IInv, Registering!LocksHeld, Registering!Busy
  <1>7. Registering!InMode'
    BY <1>1 DEF Registering!IInv, Registering!InMode, Registering!Busy
  <1>8. Registering!PostsFirst'
    <2>1. \A a \in Registering!Actors : at[a] # "post"
      BY <1>1, <1>3, RegisteringActors
    <2>2. ~lost /\ ~swapped => edevs' <= 1
      BY <1>1, <1>2 DEF Registering!IInv, Registering!PostsFirst
    <2> QED BY <2>1, <2>2, <1>1 DEF Registering!PostsFirst
  <1>9. Registering!LeftOne'
    BY <1>1, <1>3 DEF Registering!LeftOne
  <1> QED BY <1>5, <1>6, <1>7, <1>8, <1>9 DEF Registering!IInv

LEMMA RegisteringStep == ASSUME Registering!IInv, [Registering!Next]_(Registering!vars) PROVE Registering!IInv'
  <1>0. x8 \in Registering!Actors \cup {"notification", None}
    BY DEF Registering!IInv, Registering!Shape
  <1>1. ASSUME NEW a \in Registering!Actors, Registering!Rediscover(a) PROVE Registering!IInv'
    <2>1. CASE x8 = None /\ a # "probe" /\ x5 < MaxRedis /\ Registering!Replaces(a)
      <3>1. a \in {"start", "operator", "notification"}
        BY <2>1, RegisteringActors
      <3> QED BY <2>1, <3>1, <1>1, RegisteringReplaces DEF Registering!Rediscover
    <2>2. CASE /\ x8 # None \/ a = "probe"
               /\ Registering!Goto(a, Registering!Ends(a)) /\ x7' = Registering!Released(a)
               /\ x6' = (x6 /\ x8 # None) /\ UNCHANGED <<x8, x5, x13>>
      <3>1. x8 # a
        BY <1>1 DEF Registering!Rediscover, Registering!IInv, Registering!InMode
      <3>2. x8' # None => ~x6'
        BY <2>2 DEF Registering!IInv, Registering!InMode
      <3>3. x1[a] = "rediscover" /\ UNCHANGED <<x2, x4, x9, x10, x11, x14>>
        BY <1>1 DEF Registering!Rediscover
      <3> QED BY <2>2, <3>1, <3>2, <3>3, <1>0, RegisteringEnds DEF Registering!Goto
    <2> QED BY <1>1, <2>1, <2>2 DEF Registering!Rediscover
  <1>2. CASE Registering!Notified
    BY <1>2, RegisteringReplaces DEF Registering!Notified
  <1>3. ASSUME NEW ok \in BOOLEAN, Registering!Rediscovered(ok) PROVE Registering!IInv'
    <2>1. CASE x8 = "notification"
      <3>1. /\ UNCHANGED <<x1, x2, x4, x5, x7, x9, x10, x11, x13, x14>> /\ x8' = None
        BY <1>3, <2>1 DEF Registering!Rediscovered, Registering!history
      <3>2. Registering!Shape' /\ Registering!LocksHeld'
        BY <3>1, RegisteringActors DEF Registering!IInv, Registering!Shape, Registering!LocksHeld, Registering!Busy
      <3>3. Registering!InMode'
        BY <3>1, RegisteringActors DEF Registering!IInv, Registering!InMode, Registering!Busy
      <3>4. Registering!PostsFirst' /\ Registering!LeftOne'
        BY <3>1 DEF Registering!IInv, Registering!PostsFirst, Registering!LeftOne
      <3> QED BY <3>2, <3>3, <3>4 DEF Registering!IInv
    <2>2. CASE x8 # "notification"
      <3>1. x8 \in Registering!Actors /\ x1[x8] = "walk"
        BY <1>0, <1>3, <2>2 DEF Registering!Rediscovered, Registering!IInv, Registering!InMode
      <3>2. /\ x1' = [x1 EXCEPT ![x8] = Registering!Ends(x8)] /\ x7' = Registering!Released(x8)
            /\ x4' = (x4 /\ ~(ok /\ x8 \in Registering!Recoveries)) /\ x8' = None
            /\ UNCHANGED <<x2, x5, x9, x10, x11, x13, x14>>
        BY <1>3, <2>2 DEF Registering!Rediscovered, Registering!Goto, Registering!history
      <3>3. (x4' => x4) /\ (x4 /\ ~x4' => x8 \in Registering!Recoveries)
        BY <3>2
      <3> QED BY <3>1, <3>2, <3>3, <1>0, RegisteringEnds
    <2> QED BY <2>1, <2>2
  <1>4. CASE UNCHANGED Registering!vars
    <2>1. UNCHANGED <<x1, x2, x4, x5, x6, x7, x8, x9, x10, x11, x13, x14>>
      BY <1>4 DEF Registering!vars, Registering!client, Registering!polls, Registering!history
    <2> QED BY <2>1 DEF Registering!IInv, Registering!Shape, Registering!LocksHeld, Registering!Busy,
                        Registering!InMode, Registering!PostsFirst, Registering!LeftOne
  <1> QED BY <1>1, <1>2, <1>3, <1>4, RegisteringAsks, RegisteringStarts, RegisteringOutage DEF Registering!Next

LEMMA RegisteringDone == Registering!IInv => Registering!RegisteredOnce
  BY DEF Registering!IInv, Registering!PostsFirst, Registering!LeftOne, Registering!RegisteredOnce

LEMMA AdvertisingInit == ASSUME Advertising!Init PROVE Advertising!IInv
  BY DEF Advertising!Init, Advertising!IInv

(* Records go out only while the thread serves, and its end takes them     *)
(* back.                                                                   *)
LEMMA AdvertisingStep ==
    ASSUME Advertising!IInv, [Advertising!Next]_(Advertising!vars) PROVE Advertising!IInv'
  <1> DEFINE caller == x2  thread == x3  cached == x11
  <1>0. /\ cached => thread \in {"serving", "goodbye"}
        /\ caller = "idle" => thread = "none"
        /\ caller = "stopped" => thread = "dead"
    BY DEF Advertising!IInv
  <1>1. CASE UNCHANGED <<caller, thread>> /\ (thread = "serving" \/ UNCHANGED cached)
    BY <1>0, <1>1 DEF Advertising!IInv
  <1>2. ASSUME Advertising!Announce \/ (\E u \in BOOLEAN : Advertising!Query(u)) PROVE Advertising!IInv'
    <2>1. UNCHANGED <<caller, thread>> /\ thread = "serving"
      BY <1>2 DEF Advertising!Announce, Advertising!Query
    <2> QED BY <2>1, <1>1
  <1>3. ASSUME Advertising!Tick \/ Advertising!Done \/ UNCHANGED Advertising!vars PROVE Advertising!IInv'
    <2>1. UNCHANGED <<caller, thread, cached>>
      BY <1>3 DEF Advertising!Tick, Advertising!Done, Advertising!vars, Advertising!heard
    <2> QED BY <2>1, <1>1
  <1>4. ASSUME Advertising!StopSeen \/ (\E b \in BOOLEAN : Advertising!Open(b)) PROVE Advertising!IInv'
    <2>1. UNCHANGED <<caller, cached>> /\ (\/ thread = "serving" /\ thread' = "goodbye"
                                           \/ thread = "opening" /\ thread' \in {"serving", "dead"})
      BY <1>4 DEF Advertising!StopSeen, Advertising!Open, Advertising!heard
    <2> QED BY <2>1, <1>0 DEF Advertising!IInv
  <1>5. ASSUME Advertising!Goodbye PROVE Advertising!IInv'
    <2>1. caller' = caller /\ ~cached' /\ thread = "goodbye" /\ thread' = "dead"
      BY <1>5 DEF Advertising!Goodbye, Advertising!SayGoodbye
    <2> QED BY <2>1, <1>0 DEF Advertising!IInv
  <1>6. ASSUME Advertising!Caller \/ Advertising!Stop PROVE Advertising!IInv'
    <2>1. /\ cached' = cached
          /\ \/ caller = "idle" /\ caller' = "starting" /\ thread' = "opening"
             \/ caller' \in {"running", "stopping"} /\ thread' = thread
             \/ thread = "dead" /\ thread' = thread /\ caller' = "stopped"
      BY <1>6 DEF Advertising!Caller, Advertising!Start, Advertising!Started, Advertising!Joined,
                  Advertising!Stop, Advertising!heard
    <2> QED BY <2>1, <1>0 DEF Advertising!IInv
  <1> QED BY <1>2, <1>3, <1>4, <1>5, <1>6 DEF Advertising!Next, Advertising!Thread

-----------------------------------------------------------------------------
LEMMA StoppingInit == ASSUME Stopping!Init PROVE Stopping!IInv
  <1>1. Stopping!Shape
    BY DEF Stopping!Init, Stopping!Shape
  <1>2. Stopping!LockHeld
    BY PartsAssumption DEF Stopping!Init, Stopping!LockHeld, Stopping!Tasks
  <1>3. Stopping!HandlersTracked /\ Stopping!Stopped
    BY DEF Stopping!Init, Stopping!HandlersTracked, Stopping!Stopped, Stopping!Alive, Stopping!Past
  <1> QED BY <1>1, <1>2, <1>3 DEF Stopping!IInv

(* The stages of a shutdown. *)
LEMMA StoppingStages ==
    ASSUME x1 \in Nat
    PROVE  /\ Stopping!Step = "subscriptions" <=> x1 = 1
           /\ Stopping!Step = "listener" <=> x1 = 2
           /\ Stopping!Step = "processors" <=> x1 = 3
           /\ Stopping!Step = "polls" <=> x1 = 4
           /\ Stopping!Step = "http" <=> x1 = 5
           /\ Stopping!Returned <=> x1 > 5
  BY DEF Stopping!Step, Stopping!ShutdownOrder, Stopping!Returned

(* A task that works on is tracked, or came too late; one that holds the   *)
(* lock alone arms the polls.                                              *)
LEMMA StoppingTasks ==
    ASSUME Stopping!IInv, NEW t \in Stopping!Tasks,
           Stopping!Enter(t) \/ Stopping!Reset(t) \/ \E ok \in BOOLEAN : Stopping!Arms(t, ok)
    PROVE  Stopping!IInv'
  <1> DEFINE stage == x1  waiting == x2  listener == x3  tracked == x4  pc == x5  lock == x6
             sched == x9  armed == x10  session == x11  late == x12
  <1>0. /\ stage \in Nat /\ tracked \subseteq Notes /\ sched \in Nat /\ armed \subseteq {sched}
        /\ pc \in [Stopping!Tasks -> {"off", "begin", "reset", "walk", "done"}]
        /\ lock \in Stopping!Tasks \cup {None} /\ None \notin Stopping!Tasks
    BY PartsAssumption DEF Stopping!IInv, Stopping!Shape, Stopping!Tasks
  <1>1. /\ \A u \in Stopping!Tasks : pc[u] \in {"reset", "walk"} <=> lock = u
        /\ lock # None => armed = {}
    BY DEF Stopping!IInv, Stopping!LockHeld
  <1>2. Stopping!Alive(t) /\ UNCHANGED <<stage, waiting, listener, late>>
    BY DEF Stopping!Enter, Stopping!Reset, Stopping!Arms, Stopping!Alive
  <1>3. Stopping!Past(2) => late
    <2>1. Stopping!Past(2) /\ ~late => t \in tracked
      BY <1>2, <1>0 DEF Stopping!IInv, Stopping!HandlersTracked, Stopping!Past
    <2> QED BY <2>1 DEF Stopping!IInv, Stopping!Stopped
  <1>4. Stopping!Past(4) \/ stage > 5 => Stopping!Past(2)
    BY <1>0 DEF Stopping!Past
  <1>5. Stopping!Past(2)' = Stopping!Past(2) /\ Stopping!Past(4)' = Stopping!Past(4)
    BY <1>2 DEF Stopping!Past
  <1>6. Stopping!Stopped'
    BY <1>2, <1>3, <1>4, <1>5 DEF Stopping!IInv, Stopping!Stopped
  <1>7. /\ pc' \in [Stopping!Tasks -> {"off", "begin", "reset", "walk", "done"}]
        /\ \A u \in Stopping!Tasks \ {t} : pc'[u] = pc[u]
        /\ tracked' \in {tracked, tracked \ {t}} /\ (pc'[t] = "done" \/ tracked' = tracked)
    BY <1>0 DEF Stopping!Enter, Stopping!Reset, Stopping!Arms, Stopping!Ended
  <1>8. Stopping!HandlersTracked'
    <2>1. ASSUME NEW u \in Stopping!Tasks, Stopping!Alive(u)'
          PROVE  Stopping!Alive(u) /\ (u \in tracked => u \in tracked')
      BY <2>1, <1>2, <1>7 DEF Stopping!Alive
    <2> QED BY <2>1, <1>2 DEF Stopping!IInv, Stopping!HandlersTracked
  <1>9. /\ lock' \in Stopping!Tasks \cup {None} /\ sched' \in Nat /\ armed' \subseteq {sched'}
        /\ \A u \in Stopping!Tasks : pc'[u] \in {"reset", "walk"} <=> lock' = u
        /\ lock' # None => armed' = {}
    <2>1. CASE Stopping!Enter(t)
      BY <2>1, <1>0, <1>1, <1>7 DEF Stopping!Enter, Stopping!Ended
    <2>2. CASE Stopping!Reset(t)
      BY <2>2, <1>0, <1>1, <1>7 DEF Stopping!Reset
    <2>3. ASSUME NEW ok \in BOOLEAN, Stopping!Arms(t, ok)
          PROVE  /\ lock' \in Stopping!Tasks \cup {None} /\ sched' \in Nat /\ armed' \subseteq {sched'}
                 /\ \A u \in Stopping!Tasks : pc'[u] \in {"reset", "walk"} <=> lock' = u
                 /\ lock' # None => armed' = {}
      BY <2>3, <1>0, <1>1, <1>7 DEF Stopping!Arms, Stopping!Ended
    <2> QED BY <2>1, <2>2, <2>3
  <1> QED BY <1>0, <1>2, <1>6, <1>7, <1>8, <1>9 DEF Stopping!IInv, Stopping!Shape, Stopping!LockHeld

(* What a step leaves to its stage and to who is tracked, where it moves   *)
(* no rediscovery.                                                         *)
LEMMA StoppingQuiet ==
    ASSUME Stopping!IInv, UNCHANGED <<x5, x6, x9>>, x1' \in Nat, x4' \subseteq Notes, x10' \subseteq x10,
           Stopping!HandlersTracked', Stopping!Stopped'
    PROVE  Stopping!IInv'
  <1>1. Stopping!Shape'
    BY DEF Stopping!IInv, Stopping!Shape
  <1>2. Stopping!LockHeld'
    BY DEF Stopping!IInv, Stopping!LockHeld
  <1> QED BY <1>1, <1>2 DEF Stopping!IInv

(* The shutdown's own steps. *)
LEMMA StoppingAdvances ==
    ASSUME Stopping!IInv,
           \/ Stopping!Begin \/ Stopping!CancelSubscriptions \/ Stopping!CloseProcessors
           \/ Stopping!StopSite \/ Stopping!CancelPolls \/ Stopping!PollsCancelled \/ Stopping!CloseSession
    PROVE  Stopping!IInv'
  <1> DEFINE stage == x1  waiting == x2  listener == x3  tracked == x4  pc == x5  lock == x6
             sched == x9  armed == x10  session == x11  late == x12
  <1>0. /\ stage \in Nat /\ tracked \subseteq Notes /\ armed \subseteq {sched}
    BY DEF Stopping!IInv, Stopping!Shape
  <1>1. /\ stage > 2 => ~listener
        /\ (stage > 2 \/ (stage = 2 /\ waiting)) /\ ~late => tracked = {}
        /\ (stage > 4 \/ (stage = 4 /\ waiting)) /\ ~late => armed = {}
        /\ stage > 5 /\ ~late => ~session
    BY DEF Stopping!IInv, Stopping!Stopped, Stopping!Past
  <1>2. \A t \in Stopping!Tasks : Stopping!Alive(t) => t \in tracked \/ (IF stage = 0 THEN t \in HostCalls ELSE late)
    BY DEF Stopping!IInv, Stopping!HandlersTracked
  <1>3. CASE Stopping!Begin
    <2>1. /\ stage = 0 /\ stage' = 1 /\ UNCHANGED <<listener, tracked, pc, lock, sched, armed, session>>
          /\ late' = \E c \in HostCalls : Stopping!Alive(c)
      BY <1>3 DEF Stopping!Begin, Stopping!redis
    <2>2. Stopping!Stopped'
      BY <2>1 DEF Stopping!Stopped, Stopping!Past
    <2>3. \A t : Stopping!Alive(t)' = Stopping!Alive(t)
      BY <2>1 DEF Stopping!Alive
    <2>4. ASSUME NEW t \in Stopping!Tasks, Stopping!Alive(t) PROVE t \in tracked \/ late'
      BY <2>1, <2>4, <1>2
    <2>5. Stopping!HandlersTracked'
      BY <2>1, <2>3, <2>4 DEF Stopping!HandlersTracked
    <2> QED BY <2>1, <2>2, <2>5, <1>0, StoppingQuiet
  <1>4. CASE Stopping!CancelSubscriptions \/ Stopping!CloseProcessors
    <2>1. /\ stage \in {1, 3} /\ stage' = stage + 1 /\ ~waiting'
          /\ UNCHANGED <<listener, tracked, pc, lock, sched, armed, late>>
      BY <1>4, <1>0, StoppingStages DEF Stopping!CancelSubscriptions, Stopping!CloseProcessors,
                                        Stopping!Finish, Stopping!redis
    <2>2. Stopping!Stopped'
      BY <2>1, <1>1 DEF Stopping!Stopped, Stopping!Past
    <2>3. Stopping!HandlersTracked'
      BY <2>1, <1>2 DEF Stopping!HandlersTracked, Stopping!Alive
    <2> QED BY <2>1, <2>2, <2>3, <1>0, StoppingQuiet
  <1>5. CASE Stopping!StopSite
    <2>1. /\ stage = 2 /\ waiting /\ stage' = 3 /\ ~waiting' /\ ~listener' /\ tracked' = {}
          /\ UNCHANGED <<pc, lock, sched, armed, session, late>>
      BY <1>5, <1>0, StoppingStages DEF Stopping!StopSite, Stopping!Finish, Stopping!redis
    <2>2. Stopping!Stopped'
      BY <2>1, <1>1 DEF Stopping!Stopped, Stopping!Past
    <2>3. Stopping!HandlersTracked'
      BY <2>1, <1>1, <1>2 DEF Stopping!HandlersTracked, Stopping!Alive
    <2> QED BY <2>1, <2>2, <2>3, <1>0, StoppingQuiet
  <1>6. CASE Stopping!CancelPolls
    <2>1. /\ stage = 4 /\ ~waiting /\ waiting' /\ armed' = armed \ {sched}
          /\ UNCHANGED <<stage, listener, tracked, pc, lock, sched, session, late>>
      BY <1>6, <1>0, StoppingStages DEF Stopping!CancelPolls, Stopping!Awaits, Stopping!redis
    <2>2. Stopping!Stopped'
      BY <2>1, <1>0, <1>1 DEF Stopping!Stopped, Stopping!Past
    <2>3. Stopping!HandlersTracked'
      BY <2>1, <1>2 DEF Stopping!HandlersTracked, Stopping!Alive
    <2> QED BY <2>1, <2>2, <2>3, <1>0, StoppingQuiet
  <1>7. CASE Stopping!PollsCancelled
    <2>1. /\ stage = 4 /\ waiting /\ stage' = 5 /\ ~waiting'
          /\ UNCHANGED <<listener, tracked, pc, lock, sched, armed, session, late>>
      BY <1>7, <1>0, StoppingStages DEF Stopping!PollsCancelled, Stopping!Finish, Stopping!redis
    <2>2. Stopping!Stopped'
      BY <2>1, <1>1 DEF Stopping!Stopped, Stopping!Past
    <2>3. Stopping!HandlersTracked'
      BY <2>1, <1>2 DEF Stopping!HandlersTracked, Stopping!Alive
    <2> QED BY <2>1, <2>2, <2>3, <1>0, StoppingQuiet
  <1>8. CASE Stopping!CloseSession
    <2>1. /\ stage = 5 /\ stage' = 6 /\ ~waiting' /\ ~session'
          /\ UNCHANGED <<listener, tracked, pc, lock, sched, armed, late>>
      BY <1>8, <1>0, StoppingStages DEF Stopping!CloseSession, Stopping!Finish, Stopping!redis
    <2>2. Stopping!Stopped'
      BY <2>1, <1>1 DEF Stopping!Stopped, Stopping!Past
    <2>3. Stopping!HandlersTracked'
      BY <2>1, <1>2 DEF Stopping!HandlersTracked, Stopping!Alive
    <2> QED BY <2>1, <2>2, <2>3, <1>0, StoppingQuiet
  <1> QED BY <1>3, <1>4, <1>5, <1>6, <1>7, <1>8

(* NotificationServer.stop ends the tracked handlers, and with them the    *)
(* rediscovery one of them may run.                                        *)
LEMMA StoppingHandlers ==
    ASSUME Stopping!IInv, Stopping!StopHandlers PROVE Stopping!IInv'
  <1> DEFINE stage == x1  waiting == x2  listener == x3  tracked == x4  pc == x5  lock == x6
             sched == x9  armed == x10  session == x11  late == x12
  <1>0. /\ stage \in Nat /\ tracked \subseteq Notes /\ sched \in Nat /\ armed \subseteq {sched}
        /\ pc \in [Stopping!Tasks -> {"off", "begin", "reset", "walk", "done"}]
        /\ lock \in Stopping!Tasks \cup {None} /\ None \notin Stopping!Tasks
    BY PartsAssumption DEF Stopping!IInv, Stopping!Shape, Stopping!Tasks
  <1>1. /\ stage = 2 /\ stage' = 2 /\ waiting' /\ tracked' = {}
        /\ UNCHANGED <<listener, sched, armed, session, late>>
        /\ pc' = [t \in Stopping!Tasks |-> IF t \in tracked THEN "done" ELSE pc[t]]
        /\ lock' = IF lock \in tracked THEN None ELSE lock
    BY <1>0, StoppingStages DEF Stopping!StopHandlers, Stopping!Awaits
  <1>2. Stopping!Shape'
    BY <1>0, <1>1 DEF Stopping!Shape
  <1>3. Stopping!LockHeld'
    BY <1>0, <1>1 DEF Stopping!IInv, Stopping!LockHeld
  <1>4. Stopping!Stopped'
    BY <1>1 DEF Stopping!IInv, Stopping!Stopped, Stopping!Past
  <1>5. ASSUME NEW t \in Stopping!Tasks, Stopping!Alive(t)' PROVE late
    <2>1. t \notin tracked /\ Stopping!Alive(t)
      BY <1>1, <1>5 DEF Stopping!Alive
    <2> QED BY <2>1, <1>1 DEF Stopping!IInv, Stopping!HandlersTracked
  <1>6. Stopping!HandlersTracked'
    BY <1>1, <1>5 DEF Stopping!HandlersTracked
  <1> QED BY <1>2, <1>3, <1>4, <1>6 DEF Stopping!IInv

(* Notifications and calls that come while the client runs or stops, and   *)
(* the polls.                                                              *)
LEMMA StoppingBeside ==
    ASSUME Stopping!IInv,
           \/ \E n \in Notes : Stopping!Notified(n) \/ \E c \in HostCalls : Stopping!Called(c)
           \/ \E g \in 0..x9 : Stopping!Poll(g)
    PROVE  Stopping!IInv'
  <1> DEFINE stage == x1  waiting == x2  listener == x3  tracked == x4  pc == x5  lock == x6
             sched == x9  armed == x10  session == x11  late == x12
  <1>0. /\ stage \in Nat /\ tracked \subseteq Notes /\ sched \in Nat /\ armed \subseteq {sched}
        /\ pc \in [Stopping!Tasks -> {"off", "begin", "reset", "walk", "done"}]
        /\ lock \in Stopping!Tasks \cup {None} /\ Notes \subseteq Stopping!Tasks /\ HostCalls \subseteq Stopping!Tasks
    BY DEF Stopping!IInv, Stopping!Shape, Stopping!Tasks
  <1>1. ASSUME NEW t \in Stopping!Tasks, pc[t] = "off", pc' = [pc EXCEPT ![t] = "begin"],
               UNCHANGED <<stage, waiting, listener, lock, sched, armed, session>>,
               tracked' \subseteq Notes, Stopping!Stopped', late => late',
               tracked \subseteq tracked', t \in tracked' \/ (IF stage = 0 THEN t \in HostCalls ELSE late')
        PROVE  Stopping!IInv'
    <2>1. Stopping!Shape'
      BY <1>0, <1>1 DEF Stopping!Shape
    <2>2. Stopping!LockHeld'
      BY <1>0, <1>1 DEF Stopping!IInv, Stopping!LockHeld
    <2>3. \A u \in Stopping!Tasks \ {t} : Stopping!Alive(u)' = Stopping!Alive(u)
      BY <1>0, <1>1 DEF Stopping!Alive
    <2>4. Stopping!HandlersTracked'
      BY <1>0, <1>1, <2>3 DEF Stopping!IInv, Stopping!HandlersTracked
    <2> QED BY <2>1, <2>2, <2>4, <1>1 DEF Stopping!IInv
  <1>2. ASSUME NEW n \in Notes, Stopping!Notified(n) PROVE Stopping!IInv'
    <2>1. /\ listener /\ pc[n] = "off" /\ pc' = [pc EXCEPT ![n] = "begin"] /\ tracked' = tracked \cup {n}
          /\ UNCHANGED <<stage, waiting, listener, lock, sched, armed, session>>
      BY <1>2 DEF Stopping!Notified
    <2>2. late' = (late \/ (stage = 2 /\ waiting))
      BY <1>0, <1>2, StoppingStages DEF Stopping!Notified
    <2>3. Stopping!Past(2) => late'
      BY <2>1, <2>2, <1>0 DEF Stopping!IInv, Stopping!Stopped, Stopping!Past
    <2>4. (late => late') /\ Stopping!Past(2)' = Stopping!Past(2) /\ Stopping!Past(4)' = Stopping!Past(4)
      BY <2>1, <2>2 DEF Stopping!Past
    <2>5. Stopping!Stopped'
      BY <2>1, <2>3, <2>4 DEF Stopping!IInv, Stopping!Stopped
    <2> QED BY <2>1, <2>4, <2>5, <1>0, <1>1
  <1>3. ASSUME NEW c \in HostCalls, Stopping!Called(c) PROVE Stopping!IInv'
    <2>1. /\ pc[c] = "off" /\ pc' = [pc EXCEPT ![c] = "begin"]
          /\ UNCHANGED <<stage, waiting, listener, tracked, lock, sched, armed, session>>
          /\ late' = (late \/ stage > 0)
      BY <1>3 DEF Stopping!Called
    <2>2. Stopping!Past(2)' = Stopping!Past(2) /\ Stopping!Past(4)' = Stopping!Past(4)
      BY <2>1 DEF Stopping!Past
    <2>3. Stopping!Stopped'
      BY <2>1, <2>2 DEF Stopping!IInv, Stopping!Stopped
    <2>4. stage = 0 \/ late'
      <3>1. stage = 0 \/ stage > 0
        BY <1>0
      <3> QED BY <3>1, <2>1
    <2> QED BY <2>1, <2>3, <2>4, <1>0, <1>1
  <1>4. ASSUME NEW g \in 0..sched, Stopping!Poll(g) PROVE Stopping!IInv'
    <2>1. /\ armed # {} /\ UNCHANGED <<stage, waiting, listener, tracked, pc, lock, sched, armed, late>>
      BY <1>4 DEF Stopping!Poll, Stopping!redis
    <2>2. stage > 5 => late
      <3>1. stage > 5 => stage > 4
        BY <1>0
      <3> QED BY <3>1, <2>1 DEF Stopping!IInv, Stopping!Stopped, Stopping!Past
    <2>3. Stopping!Stopped'
      BY <2>1, <2>2 DEF Stopping!IInv, Stopping!Stopped, Stopping!Past
    <2>4. Stopping!HandlersTracked'
      BY <2>1 DEF Stopping!IInv, Stopping!HandlersTracked, Stopping!Alive
    <2> QED BY <2>1, <2>3, <2>4, <1>0, StoppingQuiet
  <1> QED BY <1>2, <1>3, <1>4

LEMMA StoppingStep ==
    ASSUME Stopping!IInv, [Stopping!Next]_(Stopping!vars) PROVE Stopping!IInv'
  <1>1. CASE UNCHANGED Stopping!vars
    <2>1. UNCHANGED <<x1, x2, x3, x4, x5, x6, x9, x10, x11, x12>>
      BY <1>1 DEF Stopping!vars, Stopping!redis
    <2>2. Stopping!Stopped' /\ Stopping!HandlersTracked'
      BY <2>1 DEF Stopping!IInv, Stopping!Stopped, Stopping!Past, Stopping!HandlersTracked, Stopping!Alive
    <2>3. x1 \in Nat /\ x4 \subseteq Notes
      BY DEF Stopping!IInv, Stopping!Shape
    <2> QED BY <2>1, <2>2, <2>3, StoppingQuiet
  <1>2. CASE Stopping!Next
    BY <1>2, StoppingTasks, StoppingAdvances, StoppingHandlers, StoppingBeside DEF Stopping!Next
  <1> QED BY <1>1, <1>2

(* What is left once it has returned. *)
LEMMA StoppingDone == ASSUME Stopping!IInv PROVE Stopping!StoppedForGood
  <1>1. ASSUME Stopping!Returned, ~x12 PROVE Stopping!NothingRuns
    <2>1. x1 \in Nat /\ x1 > 5
      BY <1>1, StoppingStages DEF Stopping!IInv, Stopping!Shape
    <2>2. ~x3 /\ x4 = {} /\ x10 = {} /\ ~x11
      BY <1>1, <2>1 DEF Stopping!IInv, Stopping!Stopped, Stopping!Past
    <2> QED BY <1>1, <2>1, <2>2 DEF Stopping!IInv, Stopping!HandlersTracked, Stopping!NothingRuns
  <1> QED BY <1>1 DEF Stopping!StoppedForGood

(* However datagrams, outages, recoveries, rediscoveries, handlers and     *)
(* calls from the host meet: the servers to choose from answered the       *)
(* question asked, each listed once, and hold the EndDevice if any that    *)
(* made itself known does; the client is registered once where it can be;  *)
(* and nothing of it is announced or runs on once stopped                  *)
(* (discover_for_client, register_end_device, _serve, stop).  For any      *)
(* bounds on datagrams, outages, rediscoveries, queries and passes.  Of    *)
(* the servers, no more may hold the EndDevice than discover considers:    *)
(* those beyond MAX_INSTANCES are not looked at, usable or not.            *)
THEOREM PresenceHolds ==
    ASSUME Cardinality({s \in DOMAIN Servers : Servers[s].own}) <= MAX_INSTANCES
    PROVE  Spec => []PresenceTrue
  <1> DEFINE Inv == /\ part = "dns" => Finding!IInv
                    /\ part = "registration" => Registering!IInv
                    /\ part = "advertiser" => Advertising!IInv
                    /\ part = "shutdown" => Stopping!IInv
  <1>1. Init => Inv
    BY PresenceInit, FindingInit, RegisteringInit, AdvertisingInit, StoppingInit
  <1>2. Inv /\ [Next]_vars => Inv'
    BY PresenceStep, FindingStep, RegisteringStep, AdvertisingStep, StoppingStep
  <1>3. Inv => PresenceTrue
    <2>1. Advertising!IInv => Advertising!GoneWhenStopped
      BY DEF Advertising!IInv, Advertising!GoneWhenStopped
    <2> QED BY <2>1, FindingChoice, RegisteringDone, StoppingDone DEF PresenceTrue
  <1> QED BY <1>1, <1>2, <1>3, PTL DEF Spec

=============================================================================
