----------------------------- MODULE MCParkings -----------------------------
EXTENDS Parkings, TLC

\* The owner may publish parkings, the guest not yet.
MCLevel == [owner |-> 3, guest |-> 2]
MCWeekDays == <<"monday", "tuesday">>
MCSlots == {<<8, 12>>, <<14, 18>>}
MCQueries == [date : {"christmas", "eve"}, day : {"monday", "tuesday"},
              from : {8, 10}, to : {11, 16}]

\* Open on Monday mornings, closed at Christmas.
Mornings == [week |-> [monday |-> {<<8, 12>>}, tuesday |-> {}],
             exceptions |-> <<[date |-> "christmas", available |-> FALSE, slots |-> {}]>>]

\* Open on both days, on the eve in the afternoon only or not at all.
BothDays == [week |-> [monday |-> {<<8, 12>>, <<14, 18>>}, tuesday |-> {<<8, 12>>}],
             exceptions |-> <<[date |-> "eve", available |-> TRUE, slots |-> {<<14, 18>>}],
                             [date |-> "eve", available |-> FALSE, slots |-> {}]>>]

MCAsks == {[price |-> 1, feature |-> Unset, photo |-> Unset, hours |-> Mornings],
           [price |-> Unset, feature |-> Unset, photo |-> Unset, hours |-> BothDays],
           [price |-> 2, feature |-> {"roof"}, photo |-> {"front"}, hours |-> Unset]}

Symmetry == Permutations(ParkingIds) \cup Permutations(Handlers)
=============================================================================
