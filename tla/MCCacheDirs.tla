---------------------------- MODULE MCCacheDirs ----------------------------
(* Three threads preparing a/b/x, a/b/y and a/c/z: all need a, two need    *)
(* a/b.                                                                     *)
EXTENDS CacheDirs, TLC

CONSTANTS a, b, c, x, y, z, t1, t2, t3

MCThreads == {t1, t2, t3}
MCPath == (t1 :> <<a, b, x>>) @@ (t2 :> <<a, b, y>>) @@ (t3 :> <<a, c, z>>)

=============================================================================
