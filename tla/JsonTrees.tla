----------------------------- MODULE JsonTrees -----------------------------
(***************************************************************************)
(* JSON values as the readers of agents' and flows' answers see them: a    *)
(* value is a tree.  Of a text only its name and `docs' count: the values  *)
(* that the candidates a reader cuts from it parse to, in the order the    *)
(* reader tries them (each reader says which candidates those are).        *)
(***************************************************************************)
EXTENDS Naturals, Sequences, SequencesExt

Atom == [kind |-> "atom"]
Text(name, docs) == [kind |-> "text", name |-> name, docs |-> docs]
Object(entries) == [kind |-> "object", entries |-> entries]
List(items) == [kind |-> "list", items |-> items]
Entry(key, value) == [key |-> key, value |-> value]

None == [kind |-> "none"]

IsObject(value) == value.kind = "object"
IsList(value) == value.kind = "list"
IsText(value) == value.kind = "text"

-----------------------------------------------------------------------------
Children(value) ==
    CASE IsObject(value) -> [i \in DOMAIN value.entries |-> value.entries[i].value]
      [] IsList(value) -> value.items
      [] OTHER -> <<>>

KeysOf(object) == {object.entries[i].key : i \in DOMAIN object.entries}

(* The value of a key, None without it: dict.get. *)
Get(object, key) ==
    IF ~ IsObject(object) \/ key \notin KeysOf(object) THEN None
    ELSE (CHOOSE entry \in ToSet(object.entries) : entry.key = key).value

(* The first value that passes a test, None if none does. *)
FirstWhere(values, Test(_)) ==
    LET fit == {i \in DOMAIN values : Test(values[i])}
    IN IF fit = {} THEN None ELSE values[CHOOSE i \in fit : \A j \in fit : i <= j]

FirstFound(values) == FirstWhere(values, LAMBDA v : v # None)

(* A path has keys, and "[0]" for the first item of a list. *)
Step(value, step) ==
    IF step # "[0]" THEN Get(value, step)
    ELSE IF IsList(value) /\ value.items # <<>> THEN Head(value.items) ELSE None

Dig(value, path) ==
    LET reached[n \in 0 .. Len(path)] ==
            IF n = 0 THEN value ELSE Step(reached[n - 1], path[n])
    IN reached[Len(path)]
=============================================================================
