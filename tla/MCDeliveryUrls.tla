-------------------------- MODULE MCDeliveryUrls --------------------------
(***************************************************************************)
(* The instance of Delivery with the histories of DeliveryUrls.            *)
(***************************************************************************)
EXTENDS DeliveryUrls, MCDelivery
=============================================================================
