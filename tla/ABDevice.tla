------------------------------ MODULE ABDevice ------------------------------
(***************************************************************************)
(* What a device with two application slots promises, without slots,       *)
(* records, sessions or a bootloader.  The device has a home image it can  *)
(* always return to.  A candidate may be offered; it is started at most    *)
(* once, and becomes the home image only by confirming itself while it     *)
(* executes.  Losing power ends a trial.                                   *)
(***************************************************************************)
EXTENDS Naturals

CONSTANTS
    SignedImages,   \* the images a device may execute
    SecureVersion,  \* their security epochs
    Off             \* no image executes

VARIABLES
    home,       \* the image the device falls back to
    executing,  \* the executing image, or Off
    offer,      \* "none", "offered", "started"
    floor       \* the security epoch below which nothing starts

vars == <<home, executing, offer, floor>>

Init ==
    /\ home \in SignedImages
    /\ executing = home
    /\ offer = "none"
    /\ floor = 0

\* An update is activated by the home image.
Offer ==
    /\ executing = home /\ offer = "none"
    /\ offer' = "offered"
    /\ UNCHANGED <<home, executing, floor>>

\* An offer is lost while the device is starting.
Withdraw ==
    /\ executing = Off /\ offer = "offered"
    /\ offer' = "none"
    /\ UNCHANGED <<home, executing, floor>>

\* The device starts its home image; an offer it could not start is over.
StartHome ==
    /\ executing = Off
    /\ SecureVersion[home] >= floor
    /\ executing' = home
    /\ offer' = "none"
    /\ UNCHANGED <<home, floor>>

StartCandidate ==
    /\ executing = Off /\ offer = "offered"
    /\ executing' \in {i \in SignedImages : SecureVersion[i] >= floor}
    /\ offer' = "started"
    /\ UNCHANGED <<home, floor>>

\* The candidate confirms itself.
Confirm ==
    /\ executing # Off /\ offer = "started"
    /\ home' = executing
    /\ offer' = "none"
    /\ UNCHANGED <<executing, floor>>

\* Epoch maintenance by the home image never strands it.
Raise ==
    /\ executing = home /\ offer = "none"
    /\ floor' > floor
    /\ SecureVersion[home] >= floor'
    /\ UNCHANGED <<home, executing, offer>>

LosePower ==
    /\ executing # Off
    /\ executing' = Off
    /\ offer' = IF offer = "started" THEN "none" ELSE offer
    /\ UNCHANGED <<home, floor>>

Next ==
    \/ Offer \/ Withdraw \/ StartHome \/ StartCandidate
    \/ Confirm \/ Raise \/ LosePower

Spec == Init /\ [][Next]_vars
=============================================================================
