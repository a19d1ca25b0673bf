--------------------------- MODULE MCAviationData ---------------------------
(* An instance of AviationData for TLC. *)
EXTENDS AviationData

CONSTANTS jfk, lga, town

Apt(id, large, iata) == [id |-> id, city |-> town, large |-> large, iata |-> iata]
Price(id, p) == [id |-> id, price |-> p]
Strip(id) == [id |-> id]

(* An airport listed twice, one that has no iata code or no runway, prices *)
(* that are corrected, zero, or of airports that are not listed.           *)
MCContents == {
  [airports |-> <<Apt(jfk, TRUE, TRUE), Apt(lga, TRUE, TRUE), Apt(jfk, TRUE, TRUE)>>,
   fuel |-> <<Price(jfk, 0), Price(lga, 1), Price(jfk, 2)>>,
   runways |-> <<Strip(jfk), Strip(jfk)>>, planes |-> <<1, 2>>],
  [airports |-> <<Apt(jfk, TRUE, FALSE), Apt(lga, TRUE, TRUE)>>,
   fuel |-> <<Price(jfk, 1), Price(lga, 1), Price(lga, 0)>>,
   runways |-> <<Strip(jfk), Strip(lga)>>, planes |-> <<>>],
  [airports |-> <<Apt(lga, FALSE, TRUE), Apt(jfk, TRUE, TRUE)>>,
   fuel |-> <<Price(lga, 1), Price(jfk, 1)>>,
   runways |-> <<Strip(lga), Strip(jfk)>>, planes |-> <<1>>]}

(* planRoute, prepEnv, addPlane, updatePlane (or getAirports), getCities    *)
(* and getPlanes.                                                          *)
MCPrograms == {<<"cities", "airports", "planes">>, <<"cities", "planes", "airports">>,
               <<"airports", "planes">>, <<"airports">>, <<"cities">>, <<"planes">>}
=============================================================================
