---------------------------- MODULE MCBillLedger ----------------------------
(* Constants for model-checking BillLedger. *)
EXTENDS Reports, BillAccounts

CONSTANTS p1, p2, firm, north, south, licA, licB, mkt, licence, market

\* Two kinds (bands) of one item and one kind of another.
MCItemOf == [k \in Kind |-> IF k = mkt THEN market ELSE licence]

\* The first payer was enrolled by the firm, the second by the council.
MCFirmOf == [c \in Payer |-> IF c = p1 THEN firm ELSE Direct]
MCWardOf == [c \in Payer |-> IF c = p1 THEN north ELSE south]

\* A firm's own view by ward, and the firms of one ward.
MCAsked ==
  {[reader |-> FirmOf[p1], dims |-> {"ward"}, filter |-> NoFilter],
   [reader |-> Direct, dims |-> {"consultant"}, filter |-> [NoFilter EXCEPT !.ward = WardOf[p1]]]}
=============================================================================
