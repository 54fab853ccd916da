----------------------------- MODULE MCHotReload -----------------------------
(***************************************************************************)
(* Small instances of HotReload.  Two patterns give four rule sets, of     *)
(* which the full one does not compile.                                    *)
(***************************************************************************)
EXTENDS HotReload, TLC

MCUncompilable == {Patterns}

=============================================================================
