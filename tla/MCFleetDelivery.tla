-------------------------- MODULE MCFleetDelivery --------------------------
EXTENDS FleetDelivery, TLC
=============================================================================
