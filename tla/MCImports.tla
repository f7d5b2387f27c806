------------------------------ MODULE MCImports -----------------------------
(* Six small files for TLC. Basic Science and Business Studies have the code BS  *)
(* and the header of one class begins that of the other; the student who comes   *)
(* late has one guardian twice; a father has the name of a student further down  *)
(* his file; one member of staff has a student's user name.                      *)
EXTENDS Imports, TLC

CONSTANTS gold, blue, science, business, ada, obi, eze, chi, okafor, ike, mother, father,
          register, timetable, roll, late, namesakes, team

R(key, class, code, family) ==
  [key |-> key, class |-> class, code |-> code, family |-> family]
Pupils(name, class, family) == R(<<name, 0>>, class, Nothing, family)

MCKind == (register :> "classes") @@ (timetable :> "subjects") @@ (roll :> "students")
            @@ (late :> "students") @@ (namesakes :> "students") @@ (team :> "staff")

MCRows ==
  (register :> <<R(gold, Nothing, Nothing, <<>>), R(blue, Nothing, Nothing, <<>>),
                 R(gold, Nothing, Nothing, <<>>)>>)
    @@ (timetable :> <<R(science, gold, "BS", <<>>), R(business, gold, "BS", <<>>)>>)
    @@ (roll :> <<Pupils(ada, Nothing, <<mother>>), Pupils(obi, gold, <<mother>>)>>)
    @@ (late :> <<Pupils(eze, Nothing, <<mother, mother>>)>>)
    @@ (namesakes :> <<Pupils(chi, blue, <<mother, father>>),
                       Pupils(okafor, Nothing, <<>>)>>)
    @@ (team :> <<Pupils(ada, Nothing, <<>>), Pupils(ike, Nothing, <<>>)>>)

MCLogin == (mother :> mother) @@ (father :> okafor)
MCHeader == (gold :> <<"N">>) @@ (blue :> <<"N", 1>>) @@ (Nothing :> <<"X">>)

Symmetry == Permutations(Importer)

=============================================================================
