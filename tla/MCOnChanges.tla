---------------------------- MODULE MCOnChanges -----------------------------
(***************************************************************************)
(* Values of the constants of OnChanges for TLC: rules with a condition    *)
(* that asks for null, one that asks for a string, both, or none, and      *)
(* which are written anew for other databases after they were destroyed.   *)
(***************************************************************************)
EXTENDS OnChanges, TLC

CONSTANTS r1, r2

Null(p) == [name |-> p, null |-> TRUE, re |-> {}]
Is(p, values) == [name |-> p, null |-> FALSE, re |-> values]
OnChangeDoc(names, conditions) == [db_name |-> names, if |-> conditions]

RulesWritten ==
  (r1 :> <<OnChangeDoc({"accounts"}, {Null("owner")}), {},
           OnChangeDoc({"accounts", "logs"}, {Null("owner"), Is("type", {"work"})})>>)
  @@ (r2 :> <<OnChangeDoc({"logs"}, {Is("type", {"work", "play"})}), {},
              OnChangeDoc({"accounts"}, {})>>)

SomeDocuments == [{"owner", "type"} -> {"work", "play", "null", "missing"}]
=============================================================================
