----------------------------- MODULE MCTestItem -----------------------------
(* A main menu with a test, a submenu, a disabled item and a test that is  *)
(* left out of the auto-test; the submenu holds a test and a third menu.   *)
EXTENDS TestItem

MCItems ==
    [main |-> <<"uart", "off", "spi", "manual">>,
     spi  |-> <<"master", "slave">>,
     slave |-> <<"pio">>]

MCEnabled == {"uart", "spi", "manual", "master", "slave", "pio"}
MCAllowed == {"uart", "spi", "master", "slave", "pio"}
MCKeys    == 0 .. 4
=============================================================================
