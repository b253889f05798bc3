------------------------------ MODULE StoryGraph ------------------------------
(***************************************************************************)
(* What the relationship graph and the story timeline draw: the relations  *)
(* between characters (api/relations.py), the events with who and where    *)
(* they happen to, and the links between events (api/events.py).  Nothing  *)
(* in the tables keeps two relations from saying the same, or two links    *)
(* from joining the same events; the requests check before they write, and *)
(* several may come at once (a double click, two windows), one of them     *)
(* deleting a character (api/settings.py).                                 *)
(*                                                                         *)
(* A request takes the novel's lock with its first statement (require_novel*)
(* for_update: on SQLite the write lock of the database, which BEGIN takes)*)
(* then checks, then writes and commits.  A row is a member of a set of    *)
(* ids; types are equal as normalize_name compares them.                   *)
(***************************************************************************)
EXTENDS Naturals, FiniteSets

CONSTANTS
  Requests,
  Characters, Places,
  Types,                        \* RelationInput.relation_type
  RelationIds, EventIds, LinkIds,
  NoRow, NoRequest

ASSUME GraphAssumption ==
  /\ NoRequest \notin Requests
  /\ NoRow \notin RelationIds \cup EventIds \cup LinkIds
  /\ \A members \in SUBSET (Characters \cup Places) : NoRow # members
  /\ Characters \cap Places = {}

VARIABLES
  alive,      \* the characters there are
  relations,  \* relations of entity_kind "character", by id
  events,     \* story_events, with their event_participants and event_locations
  links,      \* event_links
  request,    \* what each request asks for, and how far it is
  holder      \* the request that holds the lock

graphVars == <<alive, relations, events, links>>
graphRequestVars == <<graphVars, request, holder>>

\* RelationInput and LinkInput: between two different characters, or events.
Pairs(S) == {pair \in S \X S : pair[1] # pair[2]}
RelationInput == [from : Characters, to : Characters, type : Types, directed : BOOLEAN]
Relation == {r \in RelationInput : r.from # r.to}
Event == SUBSET (Characters \cup Places)

Ask(what, id, body) == [what |-> what, id |-> id, body |-> body]
Requested ==
  UNION {{Ask("create_relation", NoRow, r) : r \in Relation},
         {Ask("update_relation", id, r) : id \in RelationIds, r \in Relation},
         {Ask("delete_relation", id, NoRow) : id \in RelationIds},
         {Ask("create_event", NoRow, members) : members \in Event},
         {Ask("update_event", id, members) : id \in EventIds, members \in Event},
         {Ask("delete_event", id, NoRow) : id \in EventIds},
         {Ask("create_link", NoRow, pair) : pair \in Pairs(EventIds)},
         {Ask("update_link", id, pair) : id \in LinkIds, pair \in Pairs(EventIds)},
         {Ask("delete_link", id, NoRow) : id \in LinkIds},
         {Ask("delete_character", c, NoRow) : c \in Characters}}

Idle == [step |-> "none", ask |-> Ask("none", NoRow, NoRow)]

GraphInit ==
  /\ alive = Characters
  /\ relations = [id \in RelationIds |-> NoRow]
  /\ events = [id \in EventIds |-> NoRow]
  /\ links = [id \in LinkIds |-> NoRow]
  /\ request = [q \in Requests |-> Idle]
  /\ holder = NoRequest

Rows(table) == {id \in DOMAIN table : table[id] # NoRow}

-----------------------------------------------------------------------------
(* What a request checks. *)

\* _same.
Same(a, b) ==
  /\ a.type = b.type
  /\ \/ a.from = b.from /\ a.to = b.to /\ a.directed = b.directed
     \/ a.from = b.to /\ a.to = b.from /\ ~a.directed /\ ~b.directed

\* _check: its characters are there, and no other relation says the same.
RelationFits(r, except) ==
  /\ {r.from, r.to} \subseteq alive
  /\ ~\E id \in Rows(relations) \ except : Same(r, relations[id])

\* _check_members.
MembersFit(members) == members \cap Characters \subseteq alive

\* _check_link: one from an event to another, whatever its type.
LinkFits(pair, except) ==
  /\ {pair[1], pair[2]} \subseteq Rows(events)
  /\ ~\E id \in Rows(links) \ except : links[id] = pair

\* 404 and 409 otherwise.
Accepted(ask) ==
  CASE ask.what = "create_relation" -> RelationFits(ask.body, {})
    [] ask.what = "update_relation" -> ask.id \in Rows(relations) /\ RelationFits(ask.body, {ask.id})
    [] ask.what = "delete_relation" -> ask.id \in Rows(relations)
    [] ask.what = "create_event"    -> MembersFit(ask.body)
    [] ask.what = "update_event"    -> ask.id \in Rows(events) /\ MembersFit(ask.body)
    [] ask.what = "delete_event"    -> ask.id \in Rows(events)
    [] ask.what = "create_link"     -> LinkFits(ask.body, {})
    [] ask.what = "update_link"     -> ask.id \in Rows(links) /\ LinkFits(ask.body, {ask.id})
    [] ask.what = "delete_link"     -> ask.id \in Rows(links)
    [] ask.what = "delete_character" -> ask.id \in alive

-----------------------------------------------------------------------------
(* A request. *)

\* Variant: the engine's "begin" hook (models/db.py, _begin) is lost: a request
\* takes no lock before its write, for_update doing nothing on SQLite.
BeginUnlocked(q, ask) ==
  /\ request[q] = Idle
  /\ request' = [request EXCEPT ![q] = [step |-> "check", ask |-> ask]]
  /\ UNCHANGED <<graphVars, holder>>

\* require_novel(for_update=True).
Begin(q, ask) ==
  /\ request[q] = Idle
  /\ holder = NoRequest /\ holder' = q
  /\ request' = [request EXCEPT ![q] = [step |-> "check", ask |-> ask]]
  /\ UNCHANGED graphVars

\* Bound: a new row takes an id that is free.
RoomFor(ask) ==
  /\ ask.what = "create_relation" => Rows(relations) # RelationIds
  /\ ask.what = "create_event" => Rows(events) # EventIds
  /\ ask.what = "create_link" => Rows(links) # LinkIds

Released(q) == IF holder = q THEN NoRequest ELSE holder

\* A request refused, or whose connection fails, changes nothing.
CheckRequest(q) ==
  /\ request[q].step = "check"
  /\ \/ /\ Accepted(request[q].ask) /\ RoomFor(request[q].ask)
        /\ request' = [request EXCEPT ![q].step = "write"]
        /\ UNCHANGED holder
     \/ request' = [request EXCEPT ![q] = Idle] /\ holder' = Released(q)
  /\ UNCHANGED graphVars

\* The request q, checked, for one of what; it commits.
Commits(q, what) ==
  /\ request[q].step = "write" /\ request[q].ask.what \in what
  /\ request' = [request EXCEPT ![q] = Idle]
  /\ holder' = Released(q)

\* The row a request writes: the one it names, or a new one.
RowOf(ask, table) == IF ask.id = NoRow THEN DOMAIN table \ Rows(table) ELSE {ask.id}

WriteRelation(q) ==
  LET ask == request[q].ask IN
  /\ Commits(q, {"create_relation", "update_relation"})
  /\ \E id \in RowOf(ask, relations) : relations' = [relations EXCEPT ![id] = ask.body]
  /\ UNCHANGED <<alive, events, links>>

DeleteRelation(q) ==
  /\ Commits(q, {"delete_relation"})
  /\ relations' = [relations EXCEPT ![request[q].ask.id] = NoRow]
  /\ UNCHANGED <<alive, events, links>>

\* _set_members replaces who and where.
WriteEvent(q) ==
  LET ask == request[q].ask IN
  /\ Commits(q, {"create_event", "update_event"})
  /\ \E id \in RowOf(ask, events) : events' = [events EXCEPT ![id] = ask.body]
  /\ UNCHANGED <<alive, relations, links>>

\* Its links go with it, as their foreign keys cascade.
DeleteEvent(q) ==
  LET gone == request[q].ask.id IN
  /\ Commits(q, {"delete_event"})
  /\ events' = [events EXCEPT ![gone] = NoRow]
  /\ links' = [id \in LinkIds |-> IF links[id] # NoRow /\ gone \in {links[id][1], links[id][2]}
                                    THEN NoRow ELSE links[id]]
  /\ UNCHANGED <<alive, relations>>

WriteLink(q) ==
  LET ask == request[q].ask IN
  /\ Commits(q, {"create_link", "update_link"})
  /\ \E id \in RowOf(ask, links) : links' = [links EXCEPT ![id] = ask.body]
  /\ UNCHANGED <<alive, relations, events>>

DeleteLink(q) ==
  /\ Commits(q, {"delete_link"})
  /\ links' = [links EXCEPT ![request[q].ask.id] = NoRow]
  /\ UNCHANGED <<alive, relations, events>>

\* Variant: relations, which no foreign key ties to the card, are left.
DeleteCardOnly(q) ==
  LET gone == request[q].ask.id IN
  /\ Commits(q, {"delete_character"})
  /\ alive' = alive \ {gone}
  /\ events' = [id \in EventIds |-> IF events[id] = NoRow THEN NoRow ELSE events[id] \ {gone}]
  /\ UNCHANGED <<relations, links>>

\* delete_character: its part in events by their foreign keys, its relations
\* by a DELETE of its own.
DeleteCharacter(q) ==
  LET gone == request[q].ask.id IN
  /\ Commits(q, {"delete_character"})
  /\ alive' = alive \ {gone}
  /\ events' = [id \in EventIds |-> IF events[id] = NoRow THEN NoRow ELSE events[id] \ {gone}]
  /\ relations' = [id \in RelationIds |->
       IF relations[id] # NoRow /\ gone \in {relations[id].from, relations[id].to}
         THEN NoRow ELSE relations[id]]
  /\ UNCHANGED links

GraphNext ==
  \E q \in Requests :
    \/ \E ask \in Requested : Begin(q, ask)
    \/ CheckRequest(q)
    \/ WriteRelation(q) \/ DeleteRelation(q)
    \/ WriteEvent(q) \/ DeleteEvent(q)
    \/ WriteLink(q) \/ DeleteLink(q)
    \/ DeleteCharacter(q)

GraphSpec == GraphInit /\ [][GraphNext]_graphRequestVars

-----------------------------------------------------------------------------
GraphTypeOK ==
  /\ alive \subseteq Characters
  /\ relations \in [RelationIds -> Relation \cup {NoRow}]
  /\ events \in [EventIds -> Event \cup {NoRow}]
  /\ links \in [LinkIds -> Pairs(EventIds) \cup {NoRow}]
  /\ request \in [Requests -> [step : {"none", "check", "write"}, ask : Requested \cup {Idle.ask}]]
  /\ holder \in Requests \cup {NoRequest}

\* No two relations say the same: the edges of the relationship graph differ in
\* their type, their ends or the way they point, a mutual one pointing neither
\* way, in whatever order its ends were given - by whichever requests.
Meaning(r) ==
  [type |-> r.type, ends |-> {r.from, r.to}, from |-> IF r.directed THEN {r.from} ELSE {}]
RelationsDiffer ==
  \A i, j \in Rows(relations) : i # j => Meaning(relations[i]) # Meaning(relations[j])

\* One link at most leads from an event to another.
LinksDiffer == \A i, j \in Rows(links) : i # j => links[i] # links[j]

\* No edge of either graph is drawn twice.
EdgesDiffer == RelationsDiffer /\ LinksDiffer

\* Every edge has its nodes, and every event those it happens to: a character
\* or an event deleted while others are writing leaves nothing that names it.
NothingDangling ==
  /\ \A id \in Rows(relations) : {relations[id].from, relations[id].to} \subseteq alive
  /\ \A id \in Rows(events) : events[id] \cap Characters \subseteq alive
  /\ \A id \in Rows(links) : {links[id][1], links[id][2]} \subseteq Rows(events)

\* What every state has, whoever acts: the types, and edges with their ends.
GraphIsWhole == GraphTypeOK /\ NothingDangling
===============================================================================
