-------------------------- MODULE RegistryCommands --------------------------
(***************************************************************************)
(* "wh community" and "wh route" (internal/cmd/wh) through the Route       *)
(* Registry client (internal/routeregistry): one user runs commands, one   *)
(* after the other, against a registry that other clients change between   *)
(* any two of the command's requests.                                      *)
(*                                                                         *)
(* An identifier is a name or the beginning of an ID.  The client resolves *)
(* it on a list that it asked for, and acts on the ID with a request of    *)
(* its own.  Strings are sequences, so that prefixes mean what they do in  *)
(* the code; a fully qualified route name is one such string.              *)
(***************************************************************************)
EXTENDS Integers, FiniteSets, SequencesExt

CONSTANTS
    CommunityIDs, RouteIDs,   \* the IDs the registry assigns
    Names, FQNames,           \* names of communities, "domain/name" of routes
    CommunityIdents,          \* what a user types for a community
    RouteIdents,              \* what a user types for a route
    MinIDLength,              \* routeregistry.MinIDLength
    Absent,                   \* no such community, no such route
    NoDomain,                 \* a route without a domain name
    NoArg                     \* an argument that is not given

IDs == CommunityIDs \cup RouteIDs

(* IDs are strings of bounded length, long enough to be typed; none is the *)
(* beginning of another, and none has the "/" of a route's qualified name. *)
ASSUME IDAssumption ==
    /\ MinIDLength \in Nat \ {0}
    /\ IsFiniteSet(IDs)
    /\ \A i \in IDs : i \in Seq(Nat) /\ Len(i) >= MinIDLength
    /\ \A i, k \in IDs : IsPrefix(i, k) => i = k
    /\ IDs \cap (FQNames \cup {NoDomain, Absent}) = {}

Empty == << >>

Commands ==
    [kind : {"list", "remove"}, c : CommunityIdents, r : {NoArg}]
    \cup [kind : {"add"}, c : Names \cup {Empty}, r : {NoArg}]
    \cup [kind : {"add-route", "remove-route"}, c : CommunityIdents, r : RouteIdents \cup {NoArg}]
    \cup [kind : {"route-list"}, c : {NoArg}, r : RouteIdents]

VARIABLES
    communities,   \* registry: the name of every community
    routes,        \* registry: the fully qualified name of every route
    members,       \* registry: which route is in which community
    cmd,           \* the command that runs, or ran last
    pc,            \* the request that the command waits for
    cID, rID,      \* the ID of the community, and of the route, at hand
    single,        \* listSingleCommunity: the routes with an ID
    table,         \* the rows printed: the entity, the one looked up, its ID as shown
    result,        \* how the command ended
    applied,       \* history: how often the registry carried the command out
    soleC, soleR   \* history: what was the only match of cmd's identifiers

server  == <<communities, routes, members>>
client  == <<cmd, pc, cID, rID, single, table, result>>
history == <<applied, soleC, soleR>>
vars    == <<server, client, history>>

-----------------------------------------------------------------------------
(* types.go, and its use by the list requests of service.go. *)

Live(f) == {i \in DOMAIN f : f[i] # Absent}

MatchesID(id, identifier) == Len(identifier) >= MinIDLength /\ IsPrefix(identifier, id)

(* Community.Matches and Route.Matches; bare, the answer has no IDs. *)
Matches(f, i, identifier, bare) == f[i] = identifier \/ (~bare /\ MatchesID(i, identifier))

(* ListCommunities and ListRoutes: no identifier, no filter. *)
List(f, identifier, bare) ==
    IF identifier = Empty THEN Live(f) ELSE {i \in Live(f) : Matches(f, i, identifier, bare)}

(* "... not found": only an identifier can fail to match. *)
NotFound(list, identifier) == list = {} /\ identifier # Empty

(* Mutant: the first of several matches is taken. *)
NotUniqueMutant(list) == FALSE

(* ResolveCommunity and ResolveRoute: len(list) > 1. *)
NotUnique(list) == Cardinality(list) > 1

(* History: the only match of an identifier, if there is one. *)
Sole(f, identifier) ==
    {i \in Live(f) : {k \in Live(f) : Matches(f, k, identifier, FALSE)} = {i}}

-----------------------------------------------------------------------------
Init ==
    /\ communities = [c \in CommunityIDs |-> Absent]
    /\ routes = [r \in RouteIDs |-> Absent]
    /\ members = {}
    /\ cmd = [kind |-> "list", c |-> Empty, r |-> NoArg]
    /\ pc = "done" /\ result = "none"
    /\ cID = NoArg /\ rID = NoArg
    /\ single = {} /\ table = {}
    /\ applied = 0 /\ soleC = {} /\ soleR = {}

(* The arguments that the handlers of community.go insist on. *)
ArgsOk(command) ==
    /\ command.kind \in {"add", "remove"} => command.c # Empty
    /\ command.kind \in {"add-route", "remove-route"} => command.r # NoArg

FirstRequest(kind) ==
    IF kind \in {"add-route", "remove-route"} THEN "resolveCommunity" ELSE kind

Resolving == pc \in {"resolveCommunity", "resolveRoute", "modify"}

(* globalWrap calls the command's handler. *)
Start(command) ==
    /\ pc = "done"
    /\ cmd' = command
    /\ cID' = NoArg /\ rID' = NoArg /\ single' = {} /\ table' = {}
    /\ \/ ArgsOk(command) /\ pc' = FirstRequest(command.kind) /\ result' = "none"
       \/ ~ArgsOk(command) /\ pc' = "done" /\ result' = "error"
    /\ applied' = 0
    /\ soleC' = IF Resolving' THEN Sole(communities, command.c) ELSE {}
    /\ soleR' = IF Resolving' THEN Sole(routes, command.r) ELSE {}
    /\ UNCHANGED server

(* The command ends, and what it held is gone. *)
Finish(how) ==
    /\ pc' = "done" /\ result' = how
    /\ cID' = NoArg /\ rID' = NoArg /\ single' = {}
    /\ soleC' = {} /\ soleR' = {}
    /\ UNCHANGED cmd

-----------------------------------------------------------------------------
(* add-route and remove-route: modRouteToCommunity. *)

ResolveCommunity(bare) ==
    LET cl == List(communities, cmd.c, bare)
        refused == NotFound(cl, cmd.c) \/ NotUnique(cl)
    IN  /\ pc = "resolveCommunity"
        /\ \/ refused /\ Finish("error")
           \/ ~refused /\ cl = {} /\ Finish("panic")   \* cl[0]
           \/ ~refused /\ cl # {} /\ bare /\ Finish("error")
           \/ /\ ~refused /\ ~bare
              /\ cID' \in cl
              /\ pc' = "resolveRoute"
              /\ UNCHANGED <<cmd, rID, single, result, soleC, soleR>>
        /\ UNCHANGED <<server, table, applied>>

ResolveRoute(bare) ==
    LET rl == List(routes, cmd.r, bare)
        refused == NotFound(rl, cmd.r) \/ NotUnique(rl)
    IN  /\ pc = "resolveRoute"
        /\ \/ refused /\ Finish("error")
           \/ ~refused /\ rl = {} /\ Finish("panic")   \* rl[0]
           \/ ~refused /\ rl # {} /\ bare /\ Finish("error")
           \/ /\ ~refused /\ ~bare
              /\ rID' \in rl
              /\ pc' = "modify"
              /\ UNCHANGED <<cmd, cID, single, result, soleC, soleR>>
        /\ UNCHANGED <<server, table, applied>>

(* What the registry does with a membership request. *)
Accepts ==
    \/ cmd.kind = "add-route" /\ cID \in Live(communities) /\ rID \in Live(routes)
    \/ cmd.kind = "remove-route" /\ <<cID, rID>> \in members

Modified ==
    IF cmd.kind = "add-route" THEN members \cup {<<cID, rID>>} ELSE members \ {<<cID, rID>>}

(* Mutant: the error of a request is dropped. *)
ReturnErrMutant(answered) == Finish("ok")

(* A handler returns the error of its last request, if there is one. *)
ReturnErr(answered) == Finish(IF answered THEN "ok" ELSE "error")

(* The request is carried out; its response arrives, or does not. *)
Modify(answered) ==
    /\ pc = "modify" /\ Accepts
    /\ members' = Modified
    /\ applied' = applied + 1
    /\ ReturnErr(answered)
    /\ UNCHANGED <<communities, routes, table>>

ModifyRefused ==
    /\ pc = "modify" /\ ~Accepts
    /\ ReturnErr(FALSE)
    /\ UNCHANGED <<server, table, applied>>

-----------------------------------------------------------------------------
(* add and remove. *)

AddCommunity(c, answered) ==
    /\ pc = "add" /\ communities[c] = Absent
    /\ communities' = [communities EXCEPT ![c] = cmd.c]
    /\ applied' = applied + 1
    /\ ReturnErr(answered)
    /\ UNCHANGED <<routes, members, table>>

(* The identifier itself is sent: the registry looks for its only match. *)
RemoveCommunity(c, answered) ==
    /\ pc = "remove" /\ Sole(communities, cmd.c) = {c}
    /\ communities' = [communities EXCEPT ![c] = Absent]
    /\ members' = {m \in members : m[1] # c}
    /\ applied' = applied + 1
    /\ ReturnErr(answered)
    /\ UNCHANGED <<routes, table>>

RemoveRefused ==
    /\ pc = "remove" /\ Sole(communities, cmd.c) = {}
    /\ ReturnErr(FALSE)
    /\ UNCHANGED <<server, table, applied>>

-----------------------------------------------------------------------------
(* list, and what is printed. *)

(* Mutant: one character too few is kept. *)
TruncateIDMutant(id) == IF Len(id) > MinIDLength THEN SubSeq(id, 1, MinIDLength - 1) ELSE id

truncateID(id) == IF Len(id) > MinIDLength THEN SubSeq(id, 1, MinIDLength) ELSE id

Row(i, found) == [for |-> i, found |-> found, shown |-> truncateID(found)]

(* The community's own row shows its ID in full. *)
FullRow(i) == [for |-> i, found |-> i, shown |-> i]

RoutesOf(c) == {m[2] : m \in {n \in members : n[1] = c}}

(* formatCommunityList, or the first match and its routes. *)
ListCommunities(bare) ==
    LET cl == List(communities, cmd.c, bare)
    IN  /\ pc = "list"
        /\ \/ NotFound(cl, cmd.c) /\ Finish("error") /\ table' = {}
           \/ /\ cmd.c = Empty /\ Finish("ok")
              /\ table' = IF bare THEN {} ELSE {Row(c, c) : c \in cl}
           \/ \E c \in cl :
                 /\ cmd.c # Empty /\ RoutesOf(c) = {}
                 /\ Finish("ok")
                 /\ table' = IF bare THEN {} ELSE {FullRow(c)}
           \/ \E c \in cl :
                 /\ cmd.c # Empty /\ RoutesOf(c) # {}
                 /\ pc' = "listSingle"
                 /\ cID' = IF bare THEN NoArg ELSE c
                 /\ single' = IF bare THEN {} ELSE RoutesOf(c)
                 /\ UNCHANGED <<cmd, rID, table, result, soleC, soleR>>
        /\ UNCHANGED <<server, applied>>

(* Mutant: the route is looked up by its ID as it is shown. *)
FindRouteMutant(id) == {r \in Live(routes) : Matches(routes, r, truncateID(id), FALSE)}

(* findRoute, called with a full ID; the first of these is taken. *)
FindRoute(id) == {r \in Live(routes) : Matches(routes, r, id, FALSE)}

(* listSingleCommunity: every route is replaced by the one of the second   *)
(* answer, which has its access rules; a route that is gone keeps its row. *)
ListSingleCommunity ==
    /\ pc = "listSingle"
    /\ \E found \in [single -> RouteIDs] :
          /\ \A r \in single :
                IF FindRoute(r) = {} THEN found[r] = r ELSE found[r] \in FindRoute(r)
          /\ table' = {FullRow(c) : c \in {cID} \ {NoArg}}
                      \cup {Row(r, found[r]) : r \in single}
    /\ Finish("ok")
    /\ UNCHANGED <<server, applied>>

(* A single route is shown with its full ID. *)
ListRoutes(bare) ==
    LET rl == List(routes, cmd.r, bare)
    IN  /\ pc = "route-list"
        /\ \/ NotFound(rl, cmd.r) /\ Finish("error") /\ table' = {}
           \/ /\ ~NotFound(rl, cmd.r) /\ Finish("ok")
              /\ table' = CASE bare -> {}
                            [] ~bare /\ Cardinality(rl) = 1 -> {FullRow(r) : r \in rl}
                            [] OTHER -> {Row(r, r) : r \in rl}
        /\ UNCHANGED <<server, applied>>

(* Any request can fail before the registry has seen it: the command ends. *)
RequestFails ==
    /\ pc # "done"
    /\ ReturnErr(FALSE)
    /\ UNCHANGED <<server, table, applied>>

-----------------------------------------------------------------------------
(* Other clients. *)

SetCommunities(f) ==
    /\ communities' = f
    /\ soleC' = IF Resolving THEN soleC \cup Sole(f, cmd.c) ELSE soleC

SetRoutes(f) ==
    /\ routes' = f
    /\ soleR' = IF Resolving THEN soleR \cup Sole(f, cmd.r) ELSE soleR

OthersAddCommunity(c, n) ==
    /\ communities[c] = Absent
    /\ SetCommunities([communities EXCEPT ![c] = n])
    /\ UNCHANGED <<routes, members, client, applied, soleR>>

OthersRemoveCommunity(c) ==
    /\ communities[c] # Absent
    /\ SetCommunities([communities EXCEPT ![c] = Absent])
    /\ members' = {m \in members : m[1] # c}
    /\ UNCHANGED <<routes, client, applied, soleR>>

OthersOpenRoute(r, n) ==
    /\ routes[r] = Absent
    /\ SetRoutes([routes EXCEPT ![r] = n])
    /\ UNCHANGED <<communities, members, client, applied, soleC>>

OthersCloseRoute(r) ==
    /\ routes[r] # Absent
    /\ SetRoutes([routes EXCEPT ![r] = Absent])
    /\ members' = {m \in members : m[2] # r}
    /\ UNCHANGED <<communities, client, applied, soleC>>

OthersModify(c, r) ==
    /\ communities[c] # Absent /\ routes[r] # Absent
    /\ members' = IF <<c, r>> \in members THEN members \ {<<c, r>>} ELSE members \cup {<<c, r>>}
    /\ UNCHANGED <<communities, routes, client, history>>

Others ==
    \/ \E c \in CommunityIDs :
          \/ OthersRemoveCommunity(c)
          \/ \E n \in Names : OthersAddCommunity(c, n)
          \/ \E r \in RouteIDs : OthersModify(c, r)
    \/ \E r \in RouteIDs :
          \/ OthersCloseRoute(r)
          \/ \E n \in FQNames \cup {NoDomain} : OthersOpenRoute(r, n)

Next ==
    \/ \E command \in Commands : Start(command)
    \/ \E bare \in BOOLEAN :
          \/ ResolveCommunity(bare) \/ ResolveRoute(bare)
          \/ ListCommunities(bare) \/ ListRoutes(bare)
    \/ \E answered \in BOOLEAN :
          \/ Modify(answered)
          \/ \E c \in CommunityIDs : AddCommunity(c, answered) \/ RemoveCommunity(c, answered)
    \/ ModifyRefused \/ RemoveRefused \/ ListSingleCommunity \/ RequestFails
    \/ Others

Spec == Init /\ [][Next]_vars

-----------------------------------------------------------------------------
(* add-route and remove-route change the membership of nothing but what    *)
(* the user named: at some moment of the command the community was the     *)
(* only match of its identifier, and so was the route, although lists are  *)
(* stale when the change is made.  An empty identifier stands for the only *)
(* community, or route, that there is.                                     *)
OnlyTheOneNamed ==
    [][ pc = "modify" /\ members' # members /\ pc' = "done" =>
          /\ cmd.c # Empty => cID \in soleC
          /\ cmd.r # Empty => rID \in soleR ]_vars

(* A command that reports success has been carried out, exactly once; one  *)
(* that reports an error was carried out at most once: nothing is retried. *)
SuccessMeansDone ==
    /\ applied <= 1
    /\ result = "ok" /\ cmd.kind \notin {"list", "route-list"} => applied = 1

(* A community's listing shows its own routes: the row of a route, with    *)
(* its access rules, is never that of another route with a similar ID.     *)
ShowsOwnRoutes == \A row \in table : row.found = row.for

(* The ID that a listing shows can be typed back: it is long enough to be  *)
(* taken for an ID, and it matches what it was shown for.                  *)
ShownIDMatches == \A row \in table : MatchesID(row.for, row.shown)

(* ResolveCommunity: "= 0 case covered by error check".  An empty list     *)
(* never gets past the checks of ResolveCommunity and ResolveRoute.        *)
ZeroCaseCovered == result # "panic"
=============================================================================
