--------------------------- MODULE MCExportTypes ---------------------------
(***************************************************************************)
(* Small archives and targets: for the trees, three rows and two objects   *)
(* with names that differ by case; a book or two with a card; two scripts. *)
(***************************************************************************)
EXTENDS ExportTypes

MCFold == [n \in Names |-> IF n = "A" THEN "a" ELSE n]

R(type, parent, name, mark) == [type |-> type, parent |-> parent, name |-> name, mark |-> mark]
O(id, type, parent, name, mark, locked) ==
  [id |-> id, type |-> type, parent |-> parent, name |-> name, mark |-> mark, locked |-> locked]

SiblingsDiffer(rows) ==
  \A i, j \in DOMAIN rows : i # j /\ rows[i].parent = rows[j].parent => rows[i].name # rows[j].name

(* The role, if any, is the first row's, which may have a subtree, or both *)
(* of two rows that a Maildir made of folders with like names.             *)
TreeArchives(T) ==
  {[work |-> <<T>>, rows |-> rows] : rows \in {r \in
    {<<R(T, 0, n[1], k > 0 /\ T = "Mailbox"), R(T, p[1], n[2], k > 1 /\ T = "Mailbox"),
       R(T, p[2], n[3], FALSE)>> :
       n \in {"a"} \X {"a", "A"} \X {"a"}, p \in (0..1) \X {2}, k \in 0..2} :
    SiblingsDiffer(r)}}

TreeTargets(T) ==
  {{}} \union
  {{O(1, T, 0, n[1], k = 1 /\ T = "Mailbox", FALSE), O(2, T, p, n[2], k = 2 /\ T = "Mailbox", k = 3)} :
     n \in {"a", "b"} \X {"A", "b"}, p \in 0..1, k \in 0..3}

BookArchives ==
  {[work |-> <<"AddressBook", "ContactCard">>,
    rows |-> <<R("AddressBook", 0, "a", m), R("AddressBook", 0, n, FALSE),
               R("ContactCard", 2, "b", FALSE)>>] :
     n \in {"A", "b"}, m \in BOOLEAN}

BookTargets ==
  {{O(1, "AddressBook", 0, n, m, FALSE), O(2, "ContactCard", 1, c, FALSE, FALSE)} :
     n \in {"A", "b"}, c \in {"a", "b"}, m \in BOOLEAN}

ScriptArchives ==
  {[work |-> <<"SieveScript">>,
    rows |-> <<R("SieveScript", 0, "a", m = 1), R("SieveScript", 0, "b", m = 2)>>] : m \in 0..2}
ScriptTargets ==
  {{O(1, "SieveScript", 0, n, m, FALSE)} : n \in {"A", "b"}, m \in BOOLEAN}

MCArchives == TreeArchives("Mailbox") \union TreeArchives("FileNode") \union BookArchives
              \union ScriptArchives
MCTargets == TreeTargets("Mailbox") \union TreeTargets("FileNode") \union BookTargets
             \union ScriptTargets
=============================================================================
