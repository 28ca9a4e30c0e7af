----------------------------- MODULE EntityTree -----------------------------
(***************************************************************************)
(* The entity association tree of src/dsp/pdr.c: entities, the entities    *)
(* they contain, and the association records that are made of them.        *)
(*                                                                         *)
(* The tree is kept as the code keeps it, in nodes with a pointer to the   *)
(* first child and one to the next sibling, so that a node may be lost or  *)
(* used after it was freed.  A call that is refused changes nothing and is *)
(* no step.  Of the PDR repository the model has the records that a call   *)
(* adds; PdrRepo has the rest.                                             *)
(***************************************************************************)
EXTENDS Integers, Sequences, FiniteSets, FiniteSetsExt, SequencesExt

CONSTANTS
    EntityTypes,        \* types of entities, not 0
    RemoteContainers,   \* container IDs that another terminus uses, not 0
    LastNumber,         \* UINT16_MAX, which asks for a number or ID to be computed
    LastHandle,         \* UINT32_MAX
    LastHandles,        \* handles at the end of repositories, 0 for an empty one
    StartHandles,       \* handles that conversions are told to begin with, 0 for none
    MaxNodes,           \* bounds on the tree: one that is changed,
    MaxForeign,         \* one with numbers or entities from elsewhere,
    MaxBuilt            \* and one that is only built

ASSUME TreeAssumption ==
    /\ LastNumber \in Nat /\ LastHandle \in Nat
    /\ EntityTypes \subseteq Nat \ {0}
    /\ RemoteContainers \subseteq 1 .. (LastNumber - 1)
    /\ LastHandles \cup StartHandles \subseteq 0 .. LastHandle
    \* the children of a node are counted in a byte
    /\ {MaxNodes, MaxForeign, MaxBuilt} \subseteq 0 .. 254

VARIABLES
    nodes,                    \* the nodes that are allocated, by address
    root,
    last_used_container_id,
    style                     \* how the application uses the tree

treeVars == <<nodes, root, last_used_container_id, style>>

NULL == 0
Associations == {"LOGICAL", "PHYSICAL"}
Entity(type, num, container) == [type |-> type, num |-> num, container |-> container]
NoEntity == Entity(0, 0, 0)

\* Numbers and container IDs are left to the tree, or given by the application, or
\* left to the tree while entities of another terminus are in it, too; or a tree is
\* built of entities of this terminus, from the root on and one branch after the
\* other.
Styles == {"computed", "given", "remote", "built"}
Room == CASE style = "computed" -> MaxNodes
          [] style = "built" -> MaxBuilt
          [] OTHER -> MaxForeign

TreeInit ==
    /\ nodes = <<>>
    /\ root = NULL
    /\ last_used_container_id = 0
    /\ style \in Styles

-----------------------------------------------------------------------------
(* Walks through the nodes *)

\* n and its siblings after it, in order.
RECURSIVE Siblings(_, _)
Siblings(heap, n) ==
    IF n = NULL THEN <<>> ELSE <<n>> \o Siblings(heap, heap[n].next_sibling)

ChildrenOf(n) == Siblings(nodes, nodes[n].first_child)

\* entity_association_tree_visit, which is also the order in which
\* entity_association_tree_destroy leaves no node: n, what follows its siblings,
\* and what is below it.
RECURSIVE Visit(_, _)
Visit(heap, n) ==
    IF n = NULL THEN <<>>
    ELSE <<n>> \o Visit(heap, heap[n].next_sibling) \o Visit(heap, heap[n].first_child)

Reached(heap, n) == ToSet(Visit(heap, n))
Without(heap, freed) == [n \in DOMAIN heap \ freed |-> heap[n]]

\* find_entity_ref_in_tree: the search does not end at the first match, but it
\* does not look below or behind one.
RECURSIVE find_entity_ref_in_tree(_, _, _)
find_entity_ref_in_tree(n, entity, found) ==
    IF n = NULL THEN found
    ELSE IF nodes[n].entity = entity THEN n
    ELSE find_entity_ref_in_tree(nodes[n].next_sibling, entity,
             find_entity_ref_in_tree(nodes[n].first_child, entity, found))

\* entity_association_tree_find_if_remote: a match writes the container that the
\* entity has here into the entity that is looked for, and the search goes on.
RECURSIVE entity_association_tree_find_if_remote(_, _, _)
entity_association_tree_find_if_remote(n, s, is_remote) ==
    IF n = NULL THEN s
    ELSE IF /\ is_remote => nodes[n].remote_container_id = s.entity.container
            /\ nodes[n].entity.type = s.entity.type
            /\ nodes[n].entity.num = s.entity.num
    THEN [entity |-> nodes[n].entity, found |-> n]
    ELSE entity_association_tree_find_if_remote(nodes[n].first_child,
             entity_association_tree_find_if_remote(nodes[n].next_sibling, s, is_remote),
             is_remote)

pldm_entity_association_tree_find_with_locality(entity, is_remote) ==
    entity_association_tree_find_if_remote(
        root, [entity |-> entity, found |-> NULL], is_remote).found

-----------------------------------------------------------------------------
(* Adding *)

RECURSIVE find_insertion_at(_, _)
find_insertion_at(start, type) ==
    LET next == nodes[start].next_sibling
    IN  IF \/ next = NULL
           \/ nodes[start].entity.type = type /\ nodes[next].entity.type # type
        THEN start
        ELSE find_insertion_at(next, type)

pldm_is_current_parent_child(parent, type, num) ==
    \E i \in DOMAIN ChildrenOf(parent) :
       LET e == nodes[ChildrenOf(parent)[i]].entity
       IN  e.type = type /\ e.num = num

NewNode(entity, parent, remote, association) ==
    [entity |-> entity, parent |-> parent, remote_container_id |-> remote,
     first_child |-> NULL, next_sibling |-> NULL, association_type |-> association]

FreeAddress == Min(1 .. Room \ DOMAIN nodes)
Put(node) == [n \in DOMAIN nodes \cup {FreeAddress} |->
                 IF n = FreeAddress THEN node ELSE nodes[n]]

NumberOr(number, computed) == IF number # LastNumber THEN number ELSE computed

\* The topmost entry.
AddRoot(entity, number, association) ==
    /\ root = NULL
    /\ root' = FreeAddress
    /\ nodes' = Put(NewNode(Entity(entity.type, NumberOr(number, 1), 0), NoEntity,
                            0, association))
    /\ UNCHANGED last_used_container_id

\* The container ID of a parent's first child is that of the rest.
AddFirstChild(entity, number, parent, association, is_remote, update, container_id) ==
    /\ parent # NULL
    /\ nodes[parent].first_child = NULL
    /\ last_used_container_id # LastNumber
    /\ LET computed == update /\ container_id = LastNumber
           container == CASE computed -> last_used_container_id + 1
                          [] update /\ ~computed -> container_id
                          [] OTHER -> entity.container
           remote == IF is_remote THEN entity.container ELSE container
       IN  /\ nodes' = [Put(NewNode(Entity(entity.type, NumberOr(number, 1), container),
                                    nodes[parent].entity, remote, association))
                           EXCEPT ![parent].first_child = FreeAddress]
           /\ last_used_container_id' =
                 last_used_container_id + (IF computed THEN 1 ELSE 0)
    /\ UNCHANGED root

\* A mutant: the new number is that of the node before.
SiblingNumber_Same(prev, type, number) ==
    NumberOr(number, IF prev.type = type THEN prev.num ELSE 1)

\* The number after that of the last sibling of the type.
SiblingNumber(prev, type, number) ==
    NumberOr(number, IF prev.type = type THEN prev.num + 1 ELSE 1)

\* Another child of the parent, or another topmost entry: the new node comes
\* after the last sibling of its type, or at the end.
AddSibling(entity, number, parent, association) ==
    /\ root # NULL
    /\ parent # NULL => nodes[parent].first_child # NULL
    /\ LET start == IF parent = NULL THEN root ELSE nodes[parent].first_child
           at == find_insertion_at(start, entity.type)
           prev == nodes[at]
           e == Entity(entity.type, SiblingNumber(prev.entity, entity.type, number),
                       prev.entity.container)
           node == NewNode(e, prev.parent, entity.container, association)
       IN  /\ ~(prev.entity.type = entity.type /\ prev.entity.num = LastNumber)
           /\ nodes' = [Put([node EXCEPT !.next_sibling = prev.next_sibling])
                           EXCEPT ![at].next_sibling = FreeAddress]
    /\ UNCHANGED <<root, last_used_container_id>>

pldm_entity_association_tree_add_entity(entity, number, parent, association, is_remote, update, container_id) ==
    /\ Cardinality(DOMAIN nodes) < Room
    /\ number # LastNumber /\ parent # NULL =>
          ~pldm_is_current_parent_child(parent, entity.type, number)
    /\ \/ parent = NULL /\ AddRoot(entity, number, association)
       \/ AddFirstChild(entity, number, parent, association, is_remote, update,
                        container_id)
       \/ AddSibling(entity, number, parent, association)
    /\ UNCHANGED style

-----------------------------------------------------------------------------
(* Removing and copying *)

\* A mutant: the node that is unlinked keeps its siblings.
Unlinked_KeepsNext(parent, prev, curr) ==
    IF prev = NULL
    THEN [nodes EXCEPT ![parent].first_child = nodes[curr].next_sibling]
    ELSE [nodes EXCEPT ![prev].next_sibling = nodes[curr].next_sibling]

\* The nodes when curr, which comes after prev, is taken out.
Unlinked(parent, prev, curr) ==
    IF prev = NULL
    THEN [nodes EXCEPT ![parent].first_child = nodes[curr].next_sibling,
                       ![curr].next_sibling = NULL]
    ELSE [nodes EXCEPT ![prev].next_sibling = nodes[curr].next_sibling,
                       ![curr].next_sibling = NULL]

\* The node and its parent are looked for from the root, the node once more among
\* the parent's children.  The topmost entries have no parent and are not found.
pldm_entity_association_tree_delete_node(entity) ==
    LET node == find_entity_ref_in_tree(root, entity, NULL)
        parent == find_entity_ref_in_tree(root, nodes[node].parent, NULL)
        children == ChildrenOf(parent)
        matching == {i \in DOMAIN children : nodes[children[i]].entity = entity}
        i == Min(matching)
        rest == Unlinked(parent, IF i = 1 THEN NULL ELSE children[i - 1], children[i])
    IN  /\ node # NULL /\ parent # NULL /\ matching # {}
        /\ nodes' = Without(rest, Reached(rest, node))
        /\ UNCHANGED <<root, last_used_container_id, style>>

pldm_entity_association_tree_destroy_root ==
    /\ nodes' = Without(nodes, Reached(nodes, root))
    /\ root' = NULL
    /\ last_used_container_id' = 0
    /\ UNCHANGED style

\* entity_association_tree_copy with memory for so many nodes: the copies, at
\* addresses of their own, and what the caller's pointer is.
RECURSIVE entity_association_tree_copy(_, _, _)
entity_association_tree_copy(n, heap, memory) ==
    IF n = NULL THEN [heap |-> heap, new_node |-> NULL, ok |-> TRUE]
    ELSE IF Cardinality(DOMAIN heap) = memory
    THEN [heap |-> heap, new_node |-> NULL, ok |-> FALSE]
    ELSE LET a == Cardinality(DOMAIN heap) + 1
             first == entity_association_tree_copy(nodes[n].first_child,
                                                   Append(heap, nodes[n]), memory)
             next == entity_association_tree_copy(nodes[n].next_sibling, first.heap,
                                                  memory)
             child == IF next.ok THEN {} ELSE Reached(next.heap, first.new_node)
         IN  IF ~first.ok
             THEN [heap |-> Without(first.heap, {a}), new_node |-> NULL, ok |-> FALSE]
             ELSE IF ~next.ok
             THEN [heap |-> Without(next.heap, child \cup {a}), new_node |-> NULL,
                   ok |-> FALSE]
             ELSE [heap |-> [next.heap EXCEPT ![a].first_child = first.new_node,
                                              ![a].next_sibling = next.new_node],
                   new_node |-> a, ok |-> TRUE]

\* pldm_entity_association_tree_copy_root, which does not say whether it has
\* succeeded, and pldm_entity_association_tree_copy_root_check, which does; the
\* application goes on with the copy and destroys the original.
pldm_entity_association_tree_copy_root(memory) ==
    LET copy == entity_association_tree_copy(root, <<>>, memory)
    IN  /\ nodes' = copy.heap
        /\ root' = copy.new_node
        /\ UNCHANGED <<last_used_container_id, style>>

-----------------------------------------------------------------------------
(* Conversion to association records.  A result is the records in the        *)
(* repository and what the function returns: a record handle, or a negative  *)
(* error.                                                                    *)

EINVAL == -1
EOVERFLOW == -2

pldm_entity_get_num_children(n, association) ==
    Len(SelectSeq(ChildrenOf(n), LAMBDA c : nodes[c].association_type = association))

Contained(n, association) ==
    LET children == SelectSeq(ChildrenOf(n),
                              LAMBDA c : nodes[c].association_type = association)
    IN  [i \in DOMAIN children |-> nodes[children[i]].entity]

LastOf(pdrs, last) == IF pdrs = <<>> THEN last ELSE pdrs[Len(pdrs)].handle

\* pldm_pdr_add computes a handle if it is given none.
entity_association_pdr_add_children(n, association, handle, last, pdrs) ==
    LET computed == LastOf(pdrs, last) + 1
        new == IF handle # 0 THEN handle ELSE computed
        record == [handle |-> new, association_type |-> association,
                   container_id |-> nodes[nodes[n].first_child].entity.container,
                   container |-> nodes[n].entity,
                   children |-> Contained(n, association)]
    IN  IF handle = 0 /\ computed > LastHandle
        THEN [pdrs |-> pdrs, rc |-> EOVERFLOW]
        ELSE [pdrs |-> Append(pdrs, record), rc |-> new]

\* Up to two records for a node.  Without physical children the handle of the
\* record of the logical ones is not returned, but the one that was given.
entity_association_pdr_add_entry(n, handle, last, pdrs) ==
    LET logical == pldm_entity_get_num_children(n, "LOGICAL") > 0
        physical == pldm_entity_get_num_children(n, "PHYSICAL") > 0
        l == IF logical
             THEN entity_association_pdr_add_children(n, "LOGICAL", handle, last, pdrs)
             ELSE [pdrs |-> pdrs, rc |-> handle - 1]
    IN  CASE ~logical /\ ~physical ->
                 [pdrs |-> pdrs, rc |-> IF handle = 0 THEN EINVAL ELSE handle - 1]
          [] logical /\ l.rc < 0 -> l
          [] logical /\ l.rc >= 0 /\ ~physical -> [l EXCEPT !.rc = handle]
          [] logical /\ physical /\ l.rc >= LastHandle -> [l EXCEPT !.rc = EOVERFLOW]
          [] OTHER -> entity_association_pdr_add_children(n, "PHYSICAL", l.rc + 1, last,
                                                          l.pdrs)

\* An empty list of types names them all.
is_present(type, types) == types = {} \/ type \in types

\* A result that goes on with the next handle.
NextOf(s) ==
    CASE s.rc < 0 -> s
      [] s.rc \in 0 .. (LastHandle - 1) -> [s EXCEPT !.rc = @ + 1]
      [] OTHER -> [s EXCEPT !.rc = EOVERFLOW]

\* A mutant: the siblings' records are given the handles of the children's.
AfterSiblings_Restarts(before, after) == [after EXCEPT !.rc = before.rc]

\* The siblings have used handles if the one they return is another.
AfterSiblings(before, after) == IF before.rc # after.rc THEN NextOf(after) ELSE after

\* The node, its siblings with what is below them, and what is below it.
RECURSIVE entity_association_pdr_add(_, _, _, _, _)
entity_association_pdr_add(n, types, handle, last, pdrs) ==
    IF n = NULL THEN [pdrs |-> pdrs, rc |-> handle]
    ELSE LET entry == IF is_present(nodes[n].entity.type, types)
                      THEN NextOf(entity_association_pdr_add_entry(n, handle, last, pdrs))
                      ELSE [pdrs |-> pdrs, rc |-> handle]
             siblings == entity_association_pdr_add(nodes[n].next_sibling, types,
                                                    entry.rc, last, entry.pdrs)
             after == AfterSiblings(entry, siblings)
         IN  CASE entry.rc < 0 -> entry
               [] entry.rc >= 0 /\ after.rc < 0 -> after
               [] OTHER -> entity_association_pdr_add(nodes[n].first_child, types,
                                                      after.rc, last, after.pdrs)

\* pldm_entity_association_pdr_add_from_node_with_record_handle into a repository
\* that ends with the handle last: the records it adds, and its result.
\* pldm_entity_association_pdr_add is the same from the root, for all types and
\* without a handle.
pldm_entity_association_pdr_add_from_node_with_record_handle(n, types, start, last) ==
    LET s == entity_association_pdr_add(n, types, start, last, <<>>)
    IN  [s EXCEPT !.rc = IF @ < 0 THEN @ ELSE 0]

-----------------------------------------------------------------------------
(* An application that uses the tree in one of the styles.                   *)

Numbers(type, parent) ==
    IF style # "given" THEN {LastNumber}
    ELSE {n \in 1 .. (LastNumber - 1) :
             parent = NULL => \A m \in DOMAIN nodes :
                                 nodes[m].entity # Entity(type, n, 0)}

\* Container IDs that no child of another node has.
UnusedContainers ==
    1 .. (LastNumber - 1) \ {nodes[n].entity.container : n \in DOMAIN nodes}

\* A given container ID comes as a parameter or in the entity.
CarefulAdd(type, parent, association, is_remote) ==
    \E number \in Numbers(type, parent),
       container \in IF is_remote THEN RemoteContainers ELSE {0},
       update \in BOOLEAN, container_id \in 1 .. LastNumber :
       /\ IF style # "given"
          THEN update /\ container_id = LastNumber
          ELSE \/ update /\ container_id \in UnusedContainers
               \/ ~update /\ container_id = LastNumber /\ container \in UnusedContainers
       /\ pldm_entity_association_tree_add_entity(
              [type |-> type, container |-> container], number, parent, association,
              is_remote, update, container_id)

Change ==
    \/ \E type \in EntityTypes, parent \in DOMAIN nodes \cup {NULL}, is_remote \in BOOLEAN :
          /\ is_remote => style # "computed"
          /\ CarefulAdd(type, parent, "PHYSICAL", is_remote)
    \/ \E n \in DOMAIN nodes : pldm_entity_association_tree_delete_node(nodes[n].entity)
    \/ pldm_entity_association_tree_destroy_root
    \/ \E memory \in 0 .. Room : pldm_entity_association_tree_copy_root(memory)

\* The next entity is contained in the last one, or in one that contains it.
BuildOn ==
    \E association \in Associations, parent \in DOMAIN nodes \cup {NULL} :
       LET last == Cardinality(DOMAIN nodes)
           type == IF parent = NULL THEN Min(EntityTypes)
                   ELSE CHOOSE t \in EntityTypes : t # nodes[parent].entity.type
       IN  /\ parent \notin {NULL, last} => last \in Reached(nodes, nodes[parent].first_child)
           /\ CarefulAdd(type, parent, association, FALSE)

Build == BuildOn \/ pldm_entity_association_tree_destroy_root

TreeNext == IF style = "built" THEN Build ELSE Change

TreeSpec == TreeInit /\ [][TreeNext]_treeVars

-----------------------------------------------------------------------------

\* Through every addition, removal and copy, copies that run out of memory
\* included, every node that is allocated is in the tree, once, and nothing else is;
\* a node remembers the entity that its parent is; and the children of a node
\* have a container ID that no other node's have.
TreeIntact ==
    LET walk == Visit(nodes, root)
        Container(n) == nodes[n].entity.container
    IN  /\ \A n \in DOMAIN nodes :
              {nodes[n].first_child, nodes[n].next_sibling} \subseteq DOMAIN nodes \cup {NULL}
        /\ IsInjective(walk)
        /\ ToSet(walk) = DOMAIN nodes
        /\ \A n \in DOMAIN nodes :
              /\ \A c \in ToSet(ChildrenOf(n)) : nodes[c].parent = nodes[n].entity
              /\ \A c, d \in ToSet(ChildrenOf(n)) : Container(c) = Container(d)
              /\ \A c \in ToSet(ChildrenOf(n)), d \in DOMAIN nodes \ ToSet(ChildrenOf(n)) :
                    Container(c) # Container(d)

\* What has been added is found: an entity by its type, number and container ID,
\* wherever it is in the tree, so that no two entities share them; and one of
\* another terminus by the container ID it has there.  Excepted is a search that
\* finds an entity, goes on with the container ID it has here, and finds another
\* whose terminus has given it that ID.
Misled(n) ==
    LET alike == {m \in DOMAIN nodes : /\ nodes[m].entity.type = nodes[n].entity.type
                                       /\ nodes[m].entity.num = nodes[n].entity.num}
    IN  \E k, m \in alike :
           /\ nodes[k].remote_container_id = nodes[n].remote_container_id
           /\ nodes[m].remote_container_id = nodes[k].entity.container

EntitiesFound ==
    \A n \in DOMAIN nodes :
       LET e == nodes[n].entity
           remote == nodes[n].remote_container_id
           found == pldm_entity_association_tree_find_with_locality(
                        [e EXCEPT !.container = remote], TRUE)
       IN  /\ find_entity_ref_in_tree(root, e, NULL) = n
           /\ found # NULL
           /\ ~Misled(n) => nodes[found].remote_container_id = remote

\* The handle that pldm_pdr_add has computed is forgotten by
\* entity_association_pdr_add_entry if the first record is of a node that has logical
\* children only, and counting begins with 1.
HandleForgotten(start, pdrs) ==
    /\ start = 0 /\ pdrs # <<>>
    /\ \E n \in DOMAIN nodes : /\ nodes[n].entity = pdrs[1].container
                             /\ pldm_entity_get_num_children(n, "LOGICAL") > 0
                             /\ pldm_entity_get_num_children(n, "PHYSICAL") = 0

\* The content of the records that nodes of the given types from n on stand for.
Entry(n, a) ==
    [association_type |-> a,
     container_id |-> nodes[nodes[n].first_child].entity.container,
     container |-> nodes[n].entity, children |-> Contained(n, a)]
Expected(n, types) ==
    {Entry(x[1], x[2]) : x \in
        {y \in Reached(nodes, n) \X Associations :
            /\ is_present(nodes[y[1]].entity.type, types)
            /\ pldm_entity_get_num_children(y[1], y[2]) > 0}}
Content(p) == [association_type |-> p.association_type, container_id |-> p.container_id,
               container |-> p.container, children |-> p.children]

\* A conversion that succeeds writes one record for every node from the given one on
\* that is of a type on the list, and every kind of association it has, with all
\* entities contained in that way in their order; and the handles of the records
\* are new and ascend, whatever was written, skipped or empty in between, unless
\* the first is forgotten.  A list of all types says what an empty one says.
TreeWritten ==
    \A n \in DOMAIN nodes, types \in SUBSET EntityTypes \ {EntityTypes} :
       LET expected == Expected(n, types)
       IN  \A start \in StartHandles, last \in LastHandles :
              LET s == pldm_entity_association_pdr_add_from_node_with_record_handle(
                           n, types, start, last)
                  pdrs == s.pdrs
              IN  /\ s.rc = 0 => /\ {Content(pdrs[i]) : i \in DOMAIN pdrs} = expected
                                 /\ Cardinality(expected) = Len(pdrs)
                  /\ pdrs # <<>> /\ ~HandleForgotten(start, pdrs) =>
                        /\ \A i \in DOMAIN pdrs : /\ pdrs[i].handle \in 1 .. LastHandle
                                                 /\ pdrs[i].handle >= start
                                                 /\ start = 0 => pdrs[i].handle > last
                        /\ \A i \in 2 .. Len(pdrs) : pdrs[i - 1].handle < pdrs[i].handle

=============================================================================
