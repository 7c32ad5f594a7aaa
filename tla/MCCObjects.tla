----------------------------- MODULE MCCObjects -----------------------------
(***************************************************************************)
(* Constants of CObjects for TLC.                                          *)
(***************************************************************************)
EXTENDS CObjects, TLC

a == <<"a">>
aa == <<"a", "a">>

SomeTexts == {a, aa}

Asset(manufacturer, model, serial) ==
  [manufacturer |-> manufacturer, model |-> model, serial_no |-> serial]

\* Assets whose attributes differ but concatenate to the same, one with another
\* serial number, one that lacks attributes and one that has none.
SomeMaps ==
  {Asset(aa, a, a), Asset(a, aa, a), Asset(a, a, a), Asset(a, a, aa),
   [model |-> a], <<>>}

Places == Permutations(Holders)
=============================================================================
