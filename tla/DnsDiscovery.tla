---------------------------- MODULE DnsDiscovery ----------------------------
(***************************************************************************)
(* Finding a server by DNS-SD (client/dnssd/discover.py).  The client asks *)
(* first for the server that holds its own EndDevice and only then for any *)
(* server; each question goes out over every transport in turn, in one     *)
(* round for the instances' names and, for those not described on the way, *)
(* a second one.  Replies are datagrams: any may be lost, repeated, come   *)
(* in another order or be unsolicited.                                     *)
(*                                                                         *)
(* A message is the server it names, whether it carries the SRV and TXT    *)
(* records, and whether its transaction id is the query's.                 *)
(***************************************************************************)
EXTENDS Naturals, Sequences, FiniteSets

CONSTANTS
    Servers,    \* name -> [endpoint, on (transports), own, usable, volunteers]
    Transports, \* the transports configured, in order
    MaxReplies, \* bound: datagrams a round collects
    MAX_INSTANCES

Names == DOMAIN Servers
Questions == <<"edev", "any">>

VARIABLES
    question,  \* 1: the subtype of the own EndDevice, 2: any server
    transport, \* position in Transports
    round,     \* ptr, any (the second round), done
    inbox,     \* replies of the round, as they came
    named,     \* instances named over this transport, how (complete or not) and where
    found,     \* servers of this question, the first of each endpoint
    heard      \* history: servers described in a reply to a query, per question

vars == <<question, transport, round, inbox, named, found, heard>>

Messages == [server : Names, full : BOOLEAN, solicited : BOOLEAN]
NamedInstances == [server : Names, full : BOOLEAN, at : Nat]

TypeOK ==
    /\ question \in 1..2 /\ transport \in 1..Len(Transports) /\ round \in {"ptr", "any", "done"}
    /\ Len(inbox) <= MaxReplies /\ \A i \in 1..Len(inbox) : inbox[i] \in Messages
    /\ Cardinality(named) <= MAX_INSTANCES /\ found \subseteq Names

Init ==
    /\ question = 1 /\ transport = 1 /\ round = "ptr" /\ inbox = <<>> /\ named = {}
    /\ found = {} /\ heard = [q \in 1..2 |-> {}]

-----------------------------------------------------------------------------
(* Who answers: a server on the transport, for its own devices' subtypes   *)
(* and for the service.  The second round asks the unresolved instances.   *)
Asked(s) ==
    /\ Transports[transport] \in Servers[s].on
    /\ (question = 1 => Servers[s].own)
    /\ (round = "any" => \E m \in named : m.server = s /\ ~m.full)
Reply(s) ==
    /\ round # "done" /\ Asked(s) /\ Len(inbox) < MaxReplies
    /\ inbox' = Append(inbox, [server |-> s, solicited |-> TRUE,
                               full |-> round = "any" \/ Servers[s].volunteers])
    /\ UNCHANGED <<question, transport, round, named, found, heard>>
(* Something else sends a datagram to the client's port. *)
Stray(s) ==
    /\ round # "done" /\ Len(inbox) < MaxReplies
    /\ inbox' = Append(inbox, [server |-> s, full |-> TRUE, solicited |-> FALSE])
    /\ UNCHANGED <<question, transport, round, named, found, heard>>

(* Mutant: a reply is taken whatever query it answers. *)
AnyMessage(m) == TRUE
(* _decode_all drops what does not carry the query's id. *)
Solicited(m) == m.solicited
Decoded == {i \in 1..Len(inbox) : Solicited(inbox[i])}

(* _instances: each instance once, with the first message that names it;   *)
(* discover considers so many.                                             *)
First == {i \in Decoded : \A j \in Decoded : j < i => inbox[j].server # inbox[i].server}
Considered == {i \in First : Cardinality({j \in First : j <= i}) <= MAX_INSTANCES}
Instances == {[server |-> inbox[i].server, full |-> inbox[i].full, at |-> i] : i \in Considered}

(* server_from_records: the section 7.4 rules, the https key, the address. *)
ServerFromRecords(m) == m.full /\ Servers[m.server].usable
(* _resolve_instances: any message that describes the instance. *)
Resolved(s) == \E i \in Decoded : inbox[i].server = s /\ ServerFromRecords(inbox[i])

(* discover_all: the first answer for an endpoint, of those of a transport *)
(* in the order they were named.                                           *)
Endpoint(s) == Servers[s].endpoint
Merge(new) ==
    found \cup {m.server : m \in {m \in new :
        /\ \A s \in found : Endpoint(s) # Endpoint(m.server)
        /\ \A n \in new : n.at < m.at => Endpoint(n.server) # Endpoint(m.server)}}

(* Mutant: the second question is asked as well. *)
AsksOn(fs) == question = 1
(* discover_for_client: any server only when none holds the EndDevice. *)
AsksAny(fs) == question = 1 /\ fs = {}

(* A transport is done: the next one, the next question, or the answer. *)
NextTransport(fs) ==
    /\ found' = fs /\ named' = {} /\ inbox' = <<>>
    /\ IF transport < Len(Transports)
       THEN transport' = transport + 1 /\ round' = "ptr" /\ UNCHANGED question
       ELSE /\ transport' = 1
            /\ IF AsksAny(fs) THEN question' = 2 /\ round' = "ptr"
               ELSE UNCHANGED question /\ round' = "done"

Described(s) == \E i \in 1..Len(inbox) :
    inbox[i].solicited /\ inbox[i].server = s /\ ServerFromRecords(inbox[i])
Hear == heard' = [heard EXCEPT ![question] = @ \cup {s \in Names : Described(s)}]

(* discover, the first round's deadline. *)
NamesRead ==
    /\ round = "ptr" /\ Hear
    /\ IF \E m \in Instances : ~m.full
       THEN /\ named' = Instances /\ round' = "any" /\ inbox' = <<>>
            /\ UNCHANGED <<question, transport, found>>
       ELSE NextTransport(Merge({m \in Instances : ServerFromRecords(m)}))

(* The second round's. *)
RecordsRead ==
    /\ round = "any" /\ Hear
    /\ NextTransport(Merge({m \in named : ServerFromRecords(m) \/ (~m.full /\ Resolved(m.server))}))

Done == round = "done" /\ UNCHANGED vars
Next == NamesRead \/ RecordsRead \/ Done \/ \E s \in Names : Reply(s) \/ Stray(s)
Spec == Init /\ [][Next]_vars

-----------------------------------------------------------------------------
(* The servers to choose from are ones that answered the question asked    *)
(* and may be used, and hold the client's EndDevice whenever one of those  *)
(* made itself known; none is listed twice because it answers on two       *)
(* transports, and none is found in what nobody asked for                  *)
(* (discover_for_client, discover_all, server_from_records, _decode_all).  *)
ChoiceSound ==
    round = "done" =>
        /\ \A s \in found : Servers[s].usable /\ s \in heard[question]
        /\ \A s, o \in found : Endpoint(s) = Endpoint(o) => s = o
        /\ heard[1] # {} => found # {} /\ \A s \in found : Servers[s].own

-----------------------------------------------------------------------------
(* Replies come from those asked; in the first round they all volunteer    *)
(* their records or none does.                                             *)
RepliesRight ==
    \A i \in 1..Len(inbox) : inbox[i].solicited =>
        /\ (question = 1 => Servers[inbox[i].server].own)
        /\ (round = "ptr" => inbox[i].full = Servers[inbox[i].server].volunteers)
        /\ (round = "any" => \E m \in named : m.server = inbox[i].server /\ ~m.full)

NamedRight ==
    /\ round # "any" => named = {}
    /\ \A m \in named : /\ question = 1 => Servers[m.server].own
                        /\ ServerFromRecords(m) => m.server \in heard[question]
    /\ \A m, n \in named : m.at = n.at => m = n

FoundRight ==
    /\ \A s \in found : /\ Servers[s].usable /\ s \in heard[question]
                        /\ question = 1 => Servers[s].own
    /\ \A s, o \in found : Endpoint(s) = Endpoint(o) => s = o

(* Whoever holds the EndDevice and was heard is found, or will be. *)
OwnNotLost ==
    /\ question = 2 => heard[1] = {}
    /\ question = 1 /\ heard[1] # {} => found # {} \/ \E m \in named : ServerFromRecords(m)

(* The inductive invariant ChoiceSound follows from. *)
IInv ==
    /\ question \in 1..2 /\ round \in {"ptr", "any", "done"} /\ inbox \in Seq(Messages)
    /\ named \subseteq NamedInstances /\ found \subseteq Names /\ heard \in [1..2 -> SUBSET Names]
    /\ RepliesRight /\ NamedRight /\ FoundRight /\ OwnNotLost
=============================================================================
