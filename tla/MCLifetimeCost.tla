-------------------------- MODULE MCLifetimeCost --------------------------
(* A VM and its task have seven events, so time needs no bound.  One rate   *)
(* has no date and the other takes effect in the middle of that time: it    *)
(* comes before, inside, at either end of or after a window, which has no   *)
(* other price where the undated one was not imported.                      *)
EXTENDS LifetimeCost

AnyAccess == {"full", "no_logging", "denied"}
TwoCatalogs == {"undated", "dated"}
OneInTheMiddle == [c \in TwoCatalogs |-> IF c = "undated" THEN 0 ELSE 4]
RatesRise == [c \in TwoCatalogs |-> IF c = "undated" THEN 2 ELSE 3]
===========================================================================
