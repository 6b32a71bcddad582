--------------------------- MODULE MCBrowserTabs ---------------------------
(* Two tabs, of which the second only checks.                               *)
EXTENDS BrowserTabs

CONSTANTS t1, t2

MCTabs == {t1, t2}
MCSlots == {<<t1, "check">>, <<t1, "use">>, <<t2, "check">>}
=============================================================================
