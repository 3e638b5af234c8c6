----------------------- MODULE RegistryCommandsProofs -----------------------
(***************************************************************************)
(* The community and route commands, for every set of IDs and names and    *)
(* every number of other clients' changes: nothing is changed but what the *)
(* user named, at most once, and what is shown is what was asked for.      *)
(***************************************************************************)
EXTENDS RegistryCommands, SequenceTheorems, FiniteSetTheorems, TLAPS

(* The registry and the IDs at hand are typed. *)
TypeInv ==
    /\ DOMAIN communities = CommunityIDs
    /\ routes \in [RouteIDs -> FQNames \cup {NoDomain, Absent}]
    /\ members \subseteq CommunityIDs \X RouteIDs
    /\ single \subseteq RouteIDs
    /\ pc = "listSingle" => cID \in CommunityIDs \cup {NoArg}
    /\ pc \in {"resolveRoute", "modify"} => cID \in CommunityIDs
    /\ pc = "modify" => rID \in RouteIDs

(* A command that runs has not been carried out yet, and waits for one of  *)
(* its own requests.                                                       *)
OnceInv ==
    /\ pc # "done" => applied = 0 /\ result = "none"
    /\ Resolving => cmd.kind \in {"add-route", "remove-route"}
    /\ pc \in {"list", "listSingle"} => cmd.kind = "list"
    /\ pc = "route-list" => cmd.kind = "route-list"
    /\ pc \in {"add", "remove", "list", "route-list", "listSingle",
               "resolveCommunity", "resolveRoute", "modify", "done"}
    /\ SuccessMeansDone

(* The history follows the registry, and an ID that was resolved is in it. *)
NamedInv ==
    /\ Resolving => /\ Sole(communities, cmd.c) \subseteq soleC
                    /\ Sole(routes, cmd.r) \subseteq soleR
    /\ pc \in {"resolveRoute", "modify"} /\ cmd.c # Empty => cID \in soleC
    /\ pc = "modify" /\ cmd.r # Empty => rID \in soleR

(* A row is about an ID of the registry, and shows enough of it. *)
ShownInv ==
    /\ \A row \in table : row.for \in IDs
    /\ ShowsOwnRoutes
    /\ ShownIDMatches

Inv == TypeInv /\ OnceInv /\ NamedInv /\ ShownInv

-----------------------------------------------------------------------------
(* Lemmas about the operators of types.go and service.go. *)

(* A string is a beginning of itself. *)
LEMMA PrefixReflexive ==
    ASSUME NEW s \in Seq(Nat)
    PROVE  IsPrefix(s, s)
  BY DEF IsPrefix

(* The first n characters of a string are a beginning of it. *)
LEMMA SubSeqIsPrefix ==
    ASSUME NEW s \in Seq(Nat), NEW n \in 1 .. Len(s)
    PROVE  Len(SubSeq(s, 1, n)) = n /\ IsPrefix(SubSeq(s, 1, n), s)
<1> DEFINE t == SubSeq(s, 1, n)
<1>1. t \in Seq(Nat) /\ Len(t) = n
  <2>1. \A i \in 1 .. n : s[i] \in Nat
    OBVIOUS
  <2> QED
    BY <2>1, SubSeqProperties
<1>2. SubSeq(t, 1, Len(t)) = t
  BY <1>1, SubSeqFull
<1> QED
  BY <1>1, <1>2 DEF IsPrefix

(* truncateID: what it leaves of an ID can be typed back. *)
LEMMA TruncatedMatches ==
    ASSUME NEW id \in IDs
    PROVE  MatchesID(id, truncateID(id))
<1>1. id \in Seq(Nat) /\ Len(id) \in Nat /\ Len(id) >= MinIDLength /\ MinIDLength \in Nat \ {0}
  BY IDAssumption
<1>2. CASE Len(id) > MinIDLength
  <2>1. MinIDLength \in 1 .. Len(id)
    BY <1>1
  <2> QED
    BY <1>1, <1>2, <2>1, SubSeqIsPrefix DEF truncateID, MatchesID
<1>3. CASE ~(Len(id) > MinIDLength)
  BY <1>1, <1>3, PrefixReflexive DEF truncateID, MatchesID
<1> QED
  BY <1>2, <1>3

(* A full ID can be typed back. *)
LEMMA FullMatches ==
    ASSUME NEW id \in IDs
    PROVE  MatchesID(id, id)
  BY IDAssumption, PrefixReflexive DEF MatchesID

(* The rows that the listings print. *)
LEMMA RowShown ==
    ASSUME NEW id \in IDs
    PROVE  /\ Row(id, id).for = id /\ Row(id, id).found = id
           /\ MatchesID(id, Row(id, id).shown)
           /\ FullRow(id).for = id /\ FullRow(id).found = id
           /\ MatchesID(id, FullRow(id).shown)
  BY TruncatedMatches, FullMatches DEF Row, FullRow

(* A table of such rows. *)
LEMMA TableShown ==
    ASSUME \A row \in table' : \E id \in IDs : row = Row(id, id) \/ row = FullRow(id)
    PROVE  ShownInv'
  BY RowShown DEF ShownInv, ShowsOwnRoutes, ShownIDMatches

(* findRoute, called with a full ID, finds the route of that ID or none.   *)
LEMMA FindRouteFindsOwn ==
    ASSUME TypeInv, NEW id \in RouteIDs
    PROVE  FindRoute(id) \subseteq {id}
<1> SUFFICES ASSUME NEW r \in FindRoute(id) PROVE r = id
  OBVIOUS
<1>1. r \in RouteIDs /\ Matches(routes, r, id, FALSE)
  BY DEF FindRoute, Live, TypeInv
<1>2. routes[r] # id
  BY <1>1, IDAssumption DEF TypeInv, IDs
<1>3. IsPrefix(id, r)
  BY <1>1, <1>2 DEF Matches, MatchesID
<1> QED
  BY <1>1, <1>3, IDAssumption DEF IDs

(* A list with an element that is not refused has no other. *)
LEMMA UniqueIsSingleton ==
    ASSUME NEW S \in SUBSET IDs, NEW x \in S, ~NotUnique(S)
    PROVE  S = {x}
<1>1. IsFiniteSet(S) /\ Cardinality(S) \in Nat
  BY IDAssumption, FS_Subset, FS_CardinalityType
<1>2. Cardinality(S) <= 1
  BY <1>1 DEF NotUnique
<1>3. IsFiniteSet(S \ {x}) /\ Cardinality(S \ {x}) = Cardinality(S) - 1
  BY <1>1, FS_RemoveElement
<1>4. Cardinality(S \ {x}) \in Nat
  BY <1>3, FS_CardinalityType
<1>5. S \ {x} = {}
  BY <1>1, <1>2, <1>3, <1>4, FS_EmptySet
<1> QED
  BY <1>5

(* What a list with an identifier resolves to is its only match. *)
LEMMA ResolvedIsSole ==
    ASSUME NEW f, DOMAIN f \subseteq IDs, NEW identifier, identifier # Empty,
           NEW x \in List(f, identifier, FALSE), ~NotUnique(List(f, identifier, FALSE))
    PROVE  x \in Sole(f, identifier)
<1> DEFINE cl == {k \in Live(f) : Matches(f, k, identifier, FALSE)}
<1>1. List(f, identifier, FALSE) = cl
  BY DEF List
<1>2. cl \in SUBSET IDs /\ x \in cl /\ ~NotUnique(cl)
  BY <1>1 DEF Live
<1> HIDE DEF cl
<1>3. cl = {x}
  BY <1>2, UniqueIsSingleton
<1>4. x \in Live(f)
  BY <1>1 DEF cl
<1> QED
  BY <1>3, <1>4 DEF cl, Sole

(* The lists are about the registry's own IDs. *)
LEMMA ListType == \A f, identifier, bare : List(f, identifier, bare) \subseteq DOMAIN f
  BY DEF List, Live

-----------------------------------------------------------------------------
(* The invariant holds initially and is kept by every step. *)

(* What a command is, and the request that it begins with. *)
LEMMA CommandKind ==
    ASSUME NEW command \in Commands
    PROVE  /\ command.kind \in {"list", "remove", "add", "add-route", "remove-route", "route-list"}
           /\ FirstRequest(command.kind) \in {"resolveCommunity", "list", "remove", "add", "route-list"}
           /\ FirstRequest(command.kind) = "resolveCommunity"
                 => command.kind \in {"add-route", "remove-route"}
           /\ FirstRequest(command.kind) = "list" => command.kind = "list"
           /\ FirstRequest(command.kind) = "route-list" => command.kind = "route-list"
<1>1. command.kind \in {"list", "remove", "add", "add-route", "remove-route", "route-list"}
  BY DEF Commands
<1> QED
  BY <1>1 DEF FirstRequest

LEMMA InitInv == Init => Inv
<1> SUFFICES ASSUME Init PROVE Inv
  OBVIOUS
<1> USE DEF Init
<1>1. TypeInv
  BY DEF TypeInv
<1>2. OnceInv
  BY DEF OnceInv, SuccessMeansDone, Resolving
<1>3. NamedInv
  BY DEF NamedInv, Resolving
<1>4. ShownInv
  BY DEF ShownInv, ShowsOwnRoutes, ShownIDMatches
<1> QED
  BY <1>1, <1>2, <1>3, <1>4 DEF Inv

LEMMA StartInv ==
    ASSUME Inv, NEW command \in Commands, Start(command)
    PROVE  Inv'
<1> USE DEF Start
<1>1. TypeInv'
  <2>1. pc' = FirstRequest(command.kind) \/ pc' = "done"
    OBVIOUS
  <2>2. pc' \notin {"listSingle", "resolveRoute", "modify"}
    BY <2>1, CommandKind
  <2> QED
    BY <2>2 DEF Inv, TypeInv, server
<1>2. OnceInv'
  BY CommandKind DEF Inv, OnceInv, SuccessMeansDone, Resolving
<1>3. NamedInv'
  <2>1. pc' = FirstRequest(command.kind) \/ pc' = "done"
    OBVIOUS
  <2>2. pc' \notin {"resolveRoute", "modify"}
    BY <2>1, CommandKind
  <2>3. Resolving' => /\ Sole(communities, cmd.c)' \subseteq soleC'
                      /\ Sole(routes, cmd.r)' \subseteq soleR'
    BY DEF Sole, Live, Matches, server
  <2> QED
    BY <2>2, <2>3 DEF NamedInv
<1>4. ShownInv'
  BY DEF ShownInv, ShowsOwnRoutes, ShownIDMatches
<1> QED
  BY <1>1, <1>2, <1>3, <1>4 DEF Inv

(* A command that ends: its rows and the outcome are all there is to show. *)
LEMMA FinishInv ==
    ASSUME NEW how, Finish(how),
           DOMAIN communities' = CommunityIDs,
           routes' \in [RouteIDs -> FQNames \cup {NoDomain, Absent}],
           members' \subseteq CommunityIDs \X RouteIDs,
           applied' <= 1,
           how = "ok" /\ cmd.kind \notin {"list", "route-list"} => applied' = 1,
           ShownInv'
    PROVE  Inv'
<1> USE DEF Finish
<1>1. TypeInv'
  BY DEF TypeInv
<1>2. OnceInv'
  BY DEF OnceInv, SuccessMeansDone, Resolving
<1>3. NamedInv'
  BY DEF NamedInv, Resolving
<1> QED
  BY <1>1, <1>2, <1>3 DEF Inv

(* The same, when the registry is as it was. *)
LEMMA FinishUnchanged ==
    ASSUME Inv, NEW how, Finish(how), UNCHANGED <<server, applied>>, pc # "done",
           how = "ok" => cmd.kind \in {"list", "route-list"},
           ShownInv'
    PROVE  Inv'
  BY FinishInv DEF Inv, TypeInv, OnceInv, server

(* A table that is kept still shows what it did. *)
LEMMA TableUnchanged ==
    ASSUME Inv, UNCHANGED table
    PROVE  ShownInv'
  BY DEF Inv, ShownInv, ShowsOwnRoutes, ShownIDMatches

LEMMA ResolveCommunityInv ==
    ASSUME Inv, NEW bare \in BOOLEAN, ResolveCommunity(bare)
    PROVE  Inv'
<1> DEFINE cl == List(communities, cmd.c, bare)
<1>0. pc = "resolveCommunity" /\ UNCHANGED <<server, table, applied>>
  BY DEF ResolveCommunity
<1>1. CASE Finish("error") \/ Finish("panic")
  BY <1>0, <1>1, FinishUnchanged, TableUnchanged
<1>2. CASE /\ ~NotFound(cl, cmd.c) /\ ~NotUnique(cl) /\ ~bare
           /\ cID' \in cl
           /\ pc' = "resolveRoute"
           /\ UNCHANGED <<cmd, rID, single, result, soleC, soleR>>
  <2>1. cID' \in CommunityIDs
    BY <1>2, ListType DEF Inv, TypeInv
  <2>2. TypeInv'
    BY <1>0, <1>2, <2>1 DEF Inv, TypeInv, server
  <2>3. OnceInv'
    BY <1>0, <1>2 DEF Inv, OnceInv, SuccessMeansDone, Resolving
  <2>4. NamedInv'
    <3>1. Sole(communities, cmd.c) \subseteq soleC /\ Sole(routes, cmd.r) \subseteq soleR
      BY <1>0 DEF Inv, NamedInv, Resolving
    <3>2. cmd.c # Empty => cID' \in soleC
      <4>1. DOMAIN communities \subseteq IDs
        BY DEF Inv, TypeInv, IDs
      <4>2. bare = FALSE
        BY <1>2
      <4> QED
        BY <1>2, <3>1, <4>1, <4>2, ResolvedIsSole
    <3>3. UNCHANGED <<communities, routes, cmd, soleC, soleR>>
      BY <1>0, <1>2 DEF server
    <3>4. Sole(communities, cmd.c)' = Sole(communities, cmd.c) /\ Sole(routes, cmd.r)' = Sole(routes, cmd.r)
      BY <3>3 DEF Sole, Live, Matches
    <3> QED
      BY <1>2, <3>1, <3>2, <3>3, <3>4 DEF NamedInv, Resolving
  <2> QED
    BY <1>0, <2>2, <2>3, <2>4, TableUnchanged DEF Inv
<1> QED
  BY <1>1, <1>2 DEF ResolveCommunity

LEMMA ResolveRouteInv ==
    ASSUME Inv, NEW bare \in BOOLEAN, ResolveRoute(bare)
    PROVE  Inv'
<1> DEFINE rl == List(routes, cmd.r, bare)
<1>0. pc = "resolveRoute" /\ UNCHANGED <<server, table, applied>>
  BY DEF ResolveRoute
<1>1. CASE Finish("error") \/ Finish("panic")
  BY <1>0, <1>1, FinishUnchanged, TableUnchanged
<1>2. CASE /\ ~NotFound(rl, cmd.r) /\ ~NotUnique(rl) /\ ~bare
           /\ rID' \in rl
           /\ pc' = "modify"
           /\ UNCHANGED <<cmd, cID, single, result, soleC, soleR>>
  <2>1. rID' \in RouteIDs
    BY <1>2, ListType DEF Inv, TypeInv
  <2>2. TypeInv'
    BY <1>0, <1>2, <2>1 DEF Inv, TypeInv, server
  <2>3. OnceInv'
    BY <1>0, <1>2 DEF Inv, OnceInv, SuccessMeansDone, Resolving
  <2>4. NamedInv'
    <3>1. /\ Sole(communities, cmd.c) \subseteq soleC /\ Sole(routes, cmd.r) \subseteq soleR
          /\ cmd.c # Empty => cID \in soleC
      BY <1>0 DEF Inv, NamedInv, Resolving
    <3>2. cmd.r # Empty => rID' \in soleR
      <4>1. DOMAIN routes \subseteq IDs
        BY DEF Inv, TypeInv, IDs
      <4>2. bare = FALSE
        BY <1>2
      <4> QED
        BY <1>2, <3>1, <4>1, <4>2, ResolvedIsSole
    <3>3. UNCHANGED <<communities, routes, cmd, cID, soleC, soleR>>
      BY <1>0, <1>2 DEF server
    <3>4. Sole(communities, cmd.c)' = Sole(communities, cmd.c) /\ Sole(routes, cmd.r)' = Sole(routes, cmd.r)
      BY <3>3 DEF Sole, Live, Matches
    <3> QED
      BY <1>2, <3>1, <3>2, <3>3, <3>4 DEF NamedInv, Resolving
  <2> QED
    BY <1>0, <2>2, <2>3, <2>4, TableUnchanged DEF Inv
<1> QED
  BY <1>1, <1>2 DEF ResolveRoute

(* The requests that change the registry: each is the first to be carried out. *)
LEMMA ModifyInv ==
    ASSUME Inv, NEW answered \in BOOLEAN, Modify(answered)
    PROVE  Inv'
<1>1. pc = "modify" /\ applied = 0 /\ applied' = 1 /\ UNCHANGED <<communities, routes, table>>
  BY DEF Modify, Inv, OnceInv
<1>2. members' \subseteq CommunityIDs \X RouteIDs
  BY <1>1 DEF Modify, Modified, Inv, TypeInv
<1> QED
  BY <1>1, <1>2, FinishInv, TableUnchanged DEF Modify, ReturnErr, Inv, TypeInv

LEMMA AddCommunityInv ==
    ASSUME Inv, NEW answered \in BOOLEAN, NEW c \in CommunityIDs, AddCommunity(c, answered)
    PROVE  Inv'
<1>1. applied = 0 /\ applied' = 1 /\ UNCHANGED <<routes, members, table>>
  BY DEF AddCommunity, Inv, OnceInv
<1>2. DOMAIN communities' = CommunityIDs
  BY DEF AddCommunity, Inv, TypeInv
<1> QED
  BY <1>1, <1>2, FinishInv, TableUnchanged DEF AddCommunity, ReturnErr, Inv, TypeInv

LEMMA RemoveCommunityInv ==
    ASSUME Inv, NEW answered \in BOOLEAN, NEW c \in CommunityIDs, RemoveCommunity(c, answered)
    PROVE  Inv'
<1>1. applied = 0 /\ applied' = 1 /\ UNCHANGED <<routes, table>>
  BY DEF RemoveCommunity, Inv, OnceInv
<1>2. DOMAIN communities' = CommunityIDs /\ members' \subseteq CommunityIDs \X RouteIDs
  BY DEF RemoveCommunity, Inv, TypeInv
<1> QED
  BY <1>1, <1>2, FinishInv, TableUnchanged DEF RemoveCommunity, ReturnErr, Inv, TypeInv

(* The requests that fail. *)
LEMMA ErrorInv ==
    ASSUME Inv, ModifyRefused \/ RemoveRefused \/ RequestFails
    PROVE  Inv'
<1>1. pc # "done" /\ Finish("error") /\ UNCHANGED <<server, table, applied>>
  BY DEF ModifyRefused, RemoveRefused, RequestFails, ReturnErr
<1> QED
  BY <1>1, FinishUnchanged, TableUnchanged

(* The listings: what they show is what they listed. *)
LEMMA ListCommunitiesInv ==
    ASSUME Inv, NEW bare \in BOOLEAN, ListCommunities(bare)
    PROVE  Inv'
<1> DEFINE cl == List(communities, cmd.c, bare)
<1>0. pc = "list" /\ cmd.kind = "list" /\ UNCHANGED <<server, applied>>
  BY DEF ListCommunities, Inv, OnceInv
<1>1. cl \subseteq CommunityIDs /\ cl \subseteq IDs
  BY ListType DEF Inv, TypeInv, IDs
<1> HIDE DEF cl
<1>2. CASE Finish("error") /\ table' = {}
  BY <1>0, <1>2, FinishUnchanged, TableShown
<1>3. CASE Finish("ok") /\ table' = IF bare THEN {} ELSE {Row(c, c) : c \in cl}
  <2>1. ShownInv'
    BY <1>1, <1>3, TableShown
  <2> QED
    BY <1>0, <1>3, <2>1, FinishUnchanged
<1>4. ASSUME NEW c \in cl, Finish("ok"), table' = IF bare THEN {} ELSE {FullRow(c)}
      PROVE  Inv'
  <2>1. ShownInv'
    BY <1>1, <1>4, TableShown
  <2> QED
    BY <1>0, <1>4, <2>1, FinishUnchanged
<1>5. ASSUME NEW c \in cl,
             pc' = "listSingle",
             cID' = IF bare THEN NoArg ELSE c,
             single' = IF bare THEN {} ELSE RoutesOf(c),
             UNCHANGED <<cmd, rID, table, result, soleC, soleR>>
      PROVE  Inv'
  <2>1. RoutesOf(c) \subseteq RouteIDs
    BY DEF RoutesOf, Inv, TypeInv
  <2>2. TypeInv'
    BY <1>0, <1>1, <1>5, <2>1 DEF Inv, TypeInv, server
  <2>3. OnceInv'
    BY <1>0, <1>5 DEF Inv, OnceInv, SuccessMeansDone, Resolving
  <2>4. NamedInv'
    BY <1>5 DEF NamedInv, Resolving
  <2> QED
    BY <1>5, <2>2, <2>3, <2>4, TableUnchanged DEF Inv
<1> QED
  BY <1>2, <1>3, <1>4, <1>5 DEF ListCommunities, cl

LEMMA ListSingleCommunityInv ==
    ASSUME Inv, ListSingleCommunity
    PROVE  Inv'
<1>0. /\ pc = "listSingle" /\ cmd.kind = "list"
      /\ Finish("ok") /\ UNCHANGED <<server, applied>>
  BY DEF ListSingleCommunity, Inv, OnceInv
<1>1. PICK found \in [single -> RouteIDs] :
          /\ \A r \in single :
                IF FindRoute(r) = {} THEN found[r] = r ELSE found[r] \in FindRoute(r)
          /\ table' = {FullRow(c) : c \in {cID} \ {NoArg}}
                      \cup {Row(r, found[r]) : r \in single}
  BY DEF ListSingleCommunity
<1>2. TypeInv /\ single \subseteq RouteIDs
  BY DEF Inv, TypeInv
<1>3. \A r \in single : found[r] = r
  BY <1>1, <1>2, FindRouteFindsOwn
<1>4. {cID} \ {NoArg} \subseteq IDs
  BY <1>0, <1>2 DEF TypeInv, IDs
<1>5. \A r \in single : r \in IDs
  BY <1>2 DEF IDs
<1>6. ASSUME NEW row \in table'
      PROVE  \E id \in IDs : row = Row(id, id) \/ row = FullRow(id)
  BY <1>1, <1>3, <1>4, <1>5
<1>7. ShownInv'
  BY <1>6, TableShown
<1> QED
  BY <1>0, <1>7, FinishUnchanged

LEMMA ListRoutesInv ==
    ASSUME Inv, NEW bare \in BOOLEAN, ListRoutes(bare)
    PROVE  Inv'
<1> DEFINE rl == List(routes, cmd.r, bare)
<1>0. pc = "route-list" /\ cmd.kind = "route-list" /\ UNCHANGED <<server, applied>>
  BY DEF ListRoutes, Inv, OnceInv
<1>1. rl \subseteq IDs
  BY ListType DEF Inv, TypeInv, IDs
<1>2. Finish("error") \/ Finish("ok")
  BY DEF ListRoutes
<1>3. \/ table' = {}
      \/ table' = {FullRow(r) : r \in rl}
      \/ table' = {Row(r, r) : r \in rl}
  BY DEF ListRoutes
<1> HIDE DEF rl
<1>4. ShownInv'
  BY <1>1, <1>3, TableShown
<1> QED
  BY <1>0, <1>2, <1>4, FinishUnchanged

(* What other clients do is seen by the history while a command resolves. *)
LEMMA OthersInv ==
    ASSUME Inv, Others
    PROVE  Inv'
<1>1. UNCHANGED <<client, applied>>
  BY DEF Others, OthersRemoveCommunity, OthersAddCommunity, OthersModify, OthersCloseRoute,
         OthersOpenRoute, history
<1>2. /\ DOMAIN communities' = CommunityIDs
      /\ routes' \in [RouteIDs -> FQNames \cup {NoDomain, Absent}]
      /\ members' \subseteq CommunityIDs \X RouteIDs
  <2> USE DEF Inv, TypeInv
  <2>1. ASSUME NEW c \in CommunityIDs, OthersRemoveCommunity(c) PROVE <1>2!:
    BY <2>1 DEF OthersRemoveCommunity, SetCommunities
  <2>2. ASSUME NEW c \in CommunityIDs, NEW n \in Names, OthersAddCommunity(c, n) PROVE <1>2!:
    BY <2>2 DEF OthersAddCommunity, SetCommunities
  <2>3. ASSUME NEW c \in CommunityIDs, NEW r \in RouteIDs, OthersModify(c, r) PROVE <1>2!:
    BY <2>3 DEF OthersModify
  <2>4. ASSUME NEW r \in RouteIDs, OthersCloseRoute(r) PROVE <1>2!:
    BY <2>4 DEF OthersCloseRoute, SetRoutes
  <2>5. ASSUME NEW r \in RouteIDs, NEW n \in FQNames \cup {NoDomain}, OthersOpenRoute(r, n) PROVE <1>2!:
    BY <2>5 DEF OthersOpenRoute, SetRoutes
  <2> QED
    BY <2>1, <2>2, <2>3, <2>4, <2>5 DEF Others
<1>3. /\ UNCHANGED <<communities, soleC>> \/ SetCommunities(communities')
      /\ UNCHANGED <<routes, soleR>> \/ SetRoutes(routes')
  BY DEF Others, OthersRemoveCommunity, OthersAddCommunity, OthersModify, OthersCloseRoute,
         OthersOpenRoute, SetCommunities, SetRoutes, history
<1>4. TypeInv'
  BY <1>1, <1>2 DEF Inv, TypeInv, client
<1>5. OnceInv'
  BY <1>1 DEF Inv, OnceInv, SuccessMeansDone, Resolving, client
<1>6. NamedInv'
  <2>1. UNCHANGED <<pc, cmd, cID, rID>> /\ Resolving' = Resolving
    BY <1>1 DEF client, Resolving
  <2>2. soleC \subseteq soleC' /\ soleR \subseteq soleR'
    BY <1>3 DEF SetCommunities, SetRoutes
  <2>3. ASSUME Resolving
        PROVE  Sole(communities', cmd.c) \subseteq soleC' /\ Sole(routes', cmd.r) \subseteq soleR'
    BY <1>3, <2>3 DEF SetCommunities, SetRoutes, Inv, NamedInv
  <2>4. /\ Sole(communities, cmd.c)' = Sole(communities', cmd.c)
        /\ Sole(routes, cmd.r)' = Sole(routes', cmd.r)
    BY <2>1 DEF Sole, Live, Matches
  <2> QED
    BY <2>1, <2>2, <2>3, <2>4 DEF Inv, NamedInv
<1>7. ShownInv'
  BY <1>1, TableUnchanged DEF client
<1> QED
  BY <1>4, <1>5, <1>6, <1>7 DEF Inv

LEMMA NextInv == Inv /\ [Next]_vars => Inv'
<1> SUFFICES ASSUME Inv, [Next]_vars PROVE Inv'
  OBVIOUS
<1>1. CASE UNCHANGED vars
  <2>1. UNCHANGED <<communities, routes, members, cmd, pc, cID, rID, single, table, result,
                    applied, soleC, soleR>>
    BY <1>1 DEF vars, server, client, history
  <2>2. TypeInv'
    BY <2>1 DEF Inv, TypeInv
  <2>3. OnceInv'
    BY <2>1 DEF Inv, OnceInv, SuccessMeansDone, Resolving
  <2>4. NamedInv'
    <3>1. Sole(communities, cmd.c)' = Sole(communities, cmd.c) /\ Sole(routes, cmd.r)' = Sole(routes, cmd.r)
      BY <2>1 DEF Sole, Live, Matches
    <3> QED
      BY <2>1, <3>1 DEF Inv, NamedInv, Resolving
  <2> QED
    BY <2>1, <2>2, <2>3, <2>4, TableUnchanged DEF Inv
<1>2. CASE Next
  BY <1>2, StartInv, ResolveCommunityInv, ResolveRouteInv, ListCommunitiesInv, ListRoutesInv,
     ModifyInv, AddCommunityInv, RemoveCommunityInv, ErrorInv, ListSingleCommunityInv, OthersInv
     DEF Next
<1> QED
  BY <1>1, <1>2

-----------------------------------------------------------------------------
(* The invariant holds of every reachable state. *)
THEOREM Invariance == Spec => []Inv
  BY InitInv, NextInv, PTL DEF Spec

(* A command that reports success has been carried out exactly once, and   *)
(* none is carried out twice: no handler of community.go retries.          *)
THEOREM DoneOnce == Spec => []SuccessMeansDone
<1>1. Inv => SuccessMeansDone
  BY DEF Inv, OnceInv
<1> QED
  BY <1>1, Invariance, PTL

(* listSingleCommunity and findRoute: the row of a route is that of the    *)
(* route itself, since no ID is the beginning of another.                  *)
THEOREM OwnRoutesAreShown == Spec => []ShowsOwnRoutes
<1>1. Inv => ShowsOwnRoutes
  BY DEF Inv, ShownInv
<1> QED
  BY <1>1, Invariance, PTL

(* truncateID and Matches: every ID that is printed can be typed back.     *)
THEOREM ShownIDsMatch == Spec => []ShownIDMatches
<1>1. Inv => ShownIDMatches
  BY DEF Inv, ShownInv
<1> QED
  BY <1>1, Invariance, PTL

(* modRouteToCommunity: however the lists it resolved on have aged, what   *)
(* it changes was once the only match of what the user typed.              *)
THEOREM NamedIsModified == Spec => OnlyTheOneNamed
<1>1. Inv => (pc = "modify" /\ members' # members /\ pc' = "done" =>
                 /\ cmd.c # Empty => cID \in soleC
                 /\ cmd.r # Empty => rID \in soleR)
  BY DEF Inv, NamedInv
<1> QED
  BY <1>1, Invariance, PTL DEF OnlyTheOneNamed

=============================================================================
