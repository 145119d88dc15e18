----------------------------- MODULE AuthServer -----------------------------
(***************************************************************************)
(* The gateway as a client of the authentication server: at the start it   *)
(* asks for its configuration until it gets one, afterwards it asks        *)
(* whether a client's token is good.  Both resolve the server's name,      *)
(* connect, send a request and read the answer until the peer closes.      *)
(*                                                                         *)
(* An answer is its head, which ends in a blank line, and the parts of its *)
(* body: the keys of a configuration and the closing bracket, or the       *)
(* characters of a verdict.  The buffer has room for BufLen parts.  The    *)
(* requests of several clients share nothing but the name lookup, which    *)
(* wd_gethostbyname() does under a mutex, so one is asked for at a time.   *)
(***************************************************************************)
EXTENDS Naturals, Sequences, SequencesExt

CONSTANTS
    FileConfig,         \* the values of the configuration file, by key
    Valid,              \* the addresses and MACs that are well formed
    BlocksMacs,         \* the file chose the mechanism "block", not "allow"
    AddressesOf(_),     \* the addresses of a domain name
    Configurations,     \* the configurations the server may send
    Served(_),          \* the one it sends for a path when all is well
    HasRuleSet,         \* the file defines the rule set preauthenticated-users
    Close,              \* the part that ends a configuration
    BufLen,
    MaxOutages, MaxTokens   \* bounds of the model: failures of net or server, requests

ScalarKey == DOMAIN FileConfig

\* The lists of the configuration; the domain names of the last key become addresses.
List == {"freeIPList", "blockedMACList", "trustedMACList"}
ListKey == List \cup {"freeDomainList"}

ASSUME KeyAssumption == "configPath" \in ScalarKey /\ ListKey \cap ScalarKey = {}
\* A configuration is a sequence of keys with their values; its end is no key.
ASSUME ConfigurationAssumption ==
    \A c \in Configurations : c \in Seq(ToSet(c)) /\ Close \notin ToSet(c)

\* Every configPath that the gateway can come to is served, with a configuration that
\* it understands.
Paths ==
    {FileConfig["configPath"]} \cup
    UNION {{i.value : i \in {j \in ToSet(c) : j.key = "configPath"}} : c \in Configurations}
ASSUME ServedAssumption ==
    \A p \in Paths :
        /\ Served(p) \in Configurations
        /\ Len(Served(p)) + 2 <= BufLen
        /\ \A i \in ToSet(Served(p)) :
             i.key \in ScalarKey \cup ListKey /\ (i.key \in ListKey => i.array)
ASSUME ServerBounds == {BufLen, MaxOutages, MaxTokens} \subseteq Nat 
                        /\ {HasRuleSet, BlocksMacs} \subseteq BOOLEAN

VARIABLES
    up,             \* net and server are well
    outages,        \* how often they were not
    pc, task,       \* what the gateway is doing, and what for
    tries,          \* of connect_auth_server()
    answer,         \* what the server sends
    got,            \* how many parts of it have been read
    applied,        \* how many keys of it have been applied
    config, lists,  \* the configuration in use
    unresolved,     \* history: domain names whose last lookup failed
    letIn,          \* the verdict on the last token: let the client in?
    tokens          \* tokens asked about

vars == <<up, outages, pc, task, tries, answer, got, applied, config, lists,
          unresolved, letIn, tokens>>
fixed == <<up, outages>>
confVars == <<applied, config, lists, unresolved>>

NoAnswer == [head |-> FALSE, body |-> <<>>]
Total == Len(answer.body) + 1
HeadEnds == answer.head /\ got > 0          \* the blank line has been found
Body == SubSeq(answer.body, 1, got - 1)     \* what has been read after it

Init ==
    /\ up \in BOOLEAN /\ outages = 0
    /\ pc = "resolve" /\ task = "config" /\ tries = 0
    /\ answer = NoAnswer /\ got = 0 /\ applied = 0
    /\ config = FileConfig /\ lists = [l \in List |-> {}] /\ unresolved = {}
    /\ letIn = FALSE /\ tokens = 0

\* Net and server fail and recover.
Fail == up /\ outages < MaxOutages /\ up' = FALSE /\ outages' = outages + 1
Recover == ~up /\ up' = TRUE /\ UNCHANGED outages
Environment == (Fail \/ Recover)
               /\ UNCHANGED <<pc, task, tries, answer, got, confVars, letIn, tokens>>

----------------------------------------------------------------------------
(* _resolve_host(), connect_auth_server(), http_get_request().  *)

Goto(l) == /\ pc' = l
           /\ UNCHANGED <<fixed, task, answer, got, confVars, letIn, tokens>>

\* A wrong GiveUp: the caller takes any result but 0 for a good token.
GiveUpLetsIn ==
    /\ pc' = IF task = "config" THEN "pause" ELSE "idle"
    /\ letIn' = IF task = "token" THEN TRUE ELSE letIn
    /\ UNCHANGED <<fixed, task, answer, got, confVars, tokens>>

\* The request fails: a configuration is asked for again after a pause, a token
\* is not verified (token_verify() returns -1).
GiveUp ==
    /\ pc' = IF task = "config" THEN "pause" ELSE "idle"
    /\ letIn' = IF task = "token" THEN FALSE ELSE letIn
    /\ UNCHANGED <<fixed, task, answer, got, confVars, tokens>>

Resolved == pc = "resolve" /\ Goto("connect") /\ tries' = 0
NotResolved == pc = "resolve" /\ ~up /\ Goto("popular") /\ UNCHANGED tries
\* A popular host resolves: the server's name is tried again, at once and without
\* a limit.  None does: -1.
PopularResolved == pc = "popular" /\ Goto("resolve") /\ UNCHANGED tries
NoneResolved == pc = "popular" /\ ~up /\ GiveUp /\ UNCHANGED tries

\* Five tries without a pause.
NotConnected ==
    /\ pc = "connect" /\ ~up
    /\ tries' = tries + 1
    /\ IF tries + 1 < 5 THEN Goto("connect") ELSE GiveUp

\* What the server sends: a configuration, perhaps one that is refused, or text
\* of another kind; a verdict, perhaps without a blank line before it.
ConfigAnswer(c) == [head |-> TRUE, body |-> Append(c, Close)]
Answers ==
    IF task = "config"
    THEN IF up THEN {ConfigAnswer(Served(config["configPath"]))}
         ELSE {ConfigAnswer(c) : c \in Configurations}
              \cup {[head |-> h, body |-> <<>>] : h \in BOOLEAN}
    ELSE {[head |-> TRUE, body |-> b] : b \in {<<"1">>, <<"0">>, <<"1", "2">>, <<>>}}
         \cup {[head |-> FALSE, body |-> <<"1">>]}

ConnectAndSend ==
    /\ pc = "connect"
    /\ pc' = "read"
    /\ answer' \in Answers
    /\ got' = 0
    /\ UNCHANGED <<fixed, task, tries, confVars, letIn, tokens>>

Read ==
    /\ pc = "read" /\ got < Total /\ got < BufLen
    /\ got' = got + 1
    /\ UNCHANGED <<fixed, pc, task, tries, answer, confVars, letIn, tokens>>

\* Nothing for 30 seconds, or an error.
ReadFails == pc = "read" /\ ~up /\ GiveUp /\ UNCHANGED tries

\* A wrong ReadEnds: the end of the stream is not looked for.
ReadEndsFull ==
    /\ pc = "read"
    /\ got = BufLen
    /\ Goto(task) /\ UNCHANGED tries

\* read() returns 0: the peer has closed, after the whole answer or before, or the
\* buffer is full and 0 bytes were asked for.
ReadEnds ==
    /\ pc = "read"
    /\ got = Total \/ got = BufLen \/ ~up
    /\ Goto(task) /\ UNCHANGED tries

----------------------------------------------------------------------------
(* config_from_server() after the answer is there.  *)

\* No blank line, or the text is not JSON or only a part of it: nothing applied.
Parse ==
    /\ pc = "config"
    /\ UNCHANGED <<fixed, task, tries, answer, got, config, lists, unresolved, letIn, tokens>>
    /\ applied' = 0
    /\ pc' = IF HeadEnds /\ Body # <<>> /\ Last(Body) = Close THEN "apply" ELSE "pause"

Item == answer.body[applied + 1]

ApplyValue ==
    /\ pc = "apply" /\ Item # Close /\ Item.key \in ScalarKey
    /\ config' = [config EXCEPT ![Item.key] = Item.value]
    /\ applied' = applied + 1
    /\ UNCHANGED <<fixed, pc, task, tries, answer, got, lists, unresolved, letIn, tokens>>

\* The domain names to be looked up.
Names(item) == IF item.key = "freeDomainList" THEN item.value ELSE {}

\* What list l takes of a key's elements: those that are well formed; a MAC is
\* blocked only under that mechanism; a name stands for its addresses if its
\* lookup did not fail.  What is left out is left out without a word.
Takes(l, item, failed) ==
    CASE item.key = "freeDomainList" /\ l = "freeIPList" ->
            UNION {AddressesOf(name) : name \in Names(item) \ failed}
      [] item.key = l /\ (l = "blockedMACList" => BlocksMacs) -> item.value \cap Valid
      [] OTHER -> {}

\* The lists keep what they have.  Lookups fail while the net is not well.
ApplyList ==
    /\ pc = "apply" /\ Item # Close /\ Item.key \in ListKey /\ Item.array
    /\ \E failed \in SUBSET Names(Item) :
         /\ up => failed = {}
         /\ unresolved' = (unresolved \ Names(Item)) \cup failed
         /\ lists' = [l \in List |-> lists[l] \cup Takes(l, Item, failed)]
    /\ applied' = applied + 1
    /\ UNCHANGED <<fixed, pc, task, tries, answer, got, config, letIn, tokens>>

\* A wrong Refuse: a key that is not expected ends the loop like the last one.
RefuseReturns ==
    /\ pc = "apply" /\ Item # Close
    /\ Item.key \notin ScalarKey \cup ListKey \/ (Item.key \in ListKey /\ ~Item.array)
    /\ pc' = "start"
    /\ UNCHANGED <<fixed, task, tries, answer, got, confVars, letIn, tokens>>

\* -4, with the keys before this one applied.
Refuse ==
    /\ pc = "apply" /\ Item # Close
    /\ Item.key \notin ScalarKey \cup ListKey \/ (Item.key \in ListKey /\ ~Item.array)
    /\ pc' = "pause"
    /\ UNCHANGED <<fixed, task, tries, answer, got, confVars, letIn, tokens>>

Accept == pc = "apply" /\ Item = Close /\ Goto("start") /\ UNCHANGED tries
\* main() sleeps 15 seconds.
Retry == pc = "pause" /\ Goto("resolve") /\ UNCHANGED tries

\* The addresses of the list become rules of a rule set; without it, exit(-1).
free_ip_init ==
    /\ pc = "start"
    /\ Goto(IF HasRuleSet THEN "idle" ELSE "exited") /\ UNCHANGED tries

----------------------------------------------------------------------------
(* token_verify().  *)

AskToken ==
    /\ pc = "idle" /\ tokens < MaxTokens
    /\ tokens' = tokens + 1
    /\ task' = "token" /\ pc' = "resolve"
    /\ letIn' = FALSE
    /\ UNCHANGED <<fixed, tries, answer, got, confVars>>

\* Without a blank line the function returns no value: anything.
Verify ==
    /\ pc = "token"
    /\ pc' = "idle"
    /\ letIn' \in IF HeadEnds THEN {Body = <<"1">>} ELSE BOOLEAN
    /\ UNCHANGED <<fixed, task, tries, answer, got, confVars, tokens>>

Gateway ==
    \/ Resolved \/ NotResolved \/ PopularResolved \/ NoneResolved
    \/ NotConnected \/ ConnectAndSend \/ Read \/ ReadFails \/ ReadEnds
    \/ Parse \/ ApplyValue \/ ApplyList \/ Refuse \/ Accept \/ Retry \/ free_ip_init
    \/ Verify
Next == Environment \/ Gateway \/ AskToken

Spec == Init /\ [][Next]_vars /\ WF_vars(Gateway)

----------------------------------------------------------------------------
(* Properties. *)

\* What an accepted list asks for is in force, but for what the code leaves out
\* in silence: malformed elements, MACs to block under the mechanism "allow",
\* and names whose last lookup failed.
ListInForce(item) ==
    /\ item.key \in {"freeIPList", "trustedMACList"} => item.value \cap Valid \subseteq lists[item.key]
    /\ item.key = "blockedMACList" /\ BlocksMacs => item.value \cap Valid \subseteq lists[item.key]
    /\ \A name \in Names(item) \ unresolved : AddressesOf(name) \subseteq lists["freeIPList"]

\* The process starts with every key of the configuration it accepted in force, the
\* last value where a key comes twice and lists as far as ListInForce says,
\* whatever refused configurations had left in config before.
AcceptedApplied ==
    (pc \in {"start", "idle"} /\ task = "config") =>
        \A i \in 1 .. Len(answer.body) - 1 :
            LET item == answer.body[i] IN
            /\ item.key \in ScalarKey =>
                 \E j \in i .. Len(answer.body) - 1 :
                    answer.body[j].key = item.key /\ config[item.key] = answer.body[j].value
            /\ item.key \in ListKey => ListInForce(item)
            /\ item.key \in ScalarKey \cup ListKey

\* A client is let in only on an answer whose body, as far as it was read, is "1" (or
\* one without a blank line): no name, no connection, no answer in time and a
\* broken one all keep it out.
LetInOnlyOnYes ==
    [][letIn' /\ ~letIn => pc = "token" /\ (HeadEnds => Body = <<"1">>)]_vars

\* Once net and server stay well the process gets its configuration, whatever it
\* was answered before; every configPath it was given must be served.
StartsOnceUp == <>[]up => <>(pc = "idle" \/ pc = "exited")
============================================================================
