---- MODULE MCUssdMenu ----
(***************************************************************************)
(* Instances of UssdMenu for TLC.                                          *)
(***************************************************************************)
EXTENDS UssdMenu, TLC

\* Two levels of config.yaml: the main menu, two sub-menus and a detail page each.
MCItems == {<<0>>, <<1>>, <<2>>, <<1, 1>>, <<2, 1>>}

MCExitKey == <<0, 0, 0>>
MCBackKey == <<9, 9, 9>>

\* The keys, and inputs that lead somewhere from the main menu, from a sub-menu, nowhere.
MCInputs == {MCExitKey, MCBackKey, <<0>>, <<1>>, <<2>>}

\* Session ids are interchangeable, and so are requests (safety runs only).
Symmetry == Permutations(Requests) \cup Permutations(SessionIds)
====
