------------------------------- MODULE MCClient -------------------------------
(***************************************************************************)
(* Two creations and a walk through up to three pages, whose links end, or *)
(* lead back to a page that was read: under the key it was asked for, or,  *)
(* for the first page, under the second one that it has.                   *)
(***************************************************************************)
EXTENDS Client, TLC

MCPageOf == ("first" :> "p1") @@ ("p1@0" :> "p1") @@ ("p2" :> "p2") @@ ("p3" :> "p3")
MCLinks ==
    {("p1" :> "p2") @@ ("p2" :> "p3") @@ ("p3" :> "p2"),
     ("p1" :> "p2") @@ ("p2" :> "p1@0") @@ ("p3" :> None),
     ("p1" :> None) @@ ("p2" :> None) @@ ("p3" :> None)}
MCItemsOf == ("p1" :> <<"a", "b">>) @@ ("p2" :> <<"c">>) @@ ("p3" :> <<"d">>)
=============================================================================
