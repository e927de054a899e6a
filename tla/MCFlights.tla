------------------------------- MODULE MCFlights -------------------------------
EXTENDS Flights, TLC

MCSymmetry == Permutations(Requests) \cup Permutations(Prints) \cup Permutations(Keys)
=============================================================================
