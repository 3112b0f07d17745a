---------------------------- MODULE MCReadModels ----------------------------
(***************************************************************************)
(* Reports of three providers for model checking: one gate-in that several *)
(* report, with the name of its place alone or with codes that disagree,   *)
(* an arrival that is forecast first, paperwork, a fix without a name and  *)
(* reports without a time.  The depot and its town read alike; the map has *)
(* no coordinates for the depot and for the terminal at Born.              *)
(***************************************************************************)
EXTENDS ReadModels

Report(provider, id, type, kind, at, place) ==
    [provider |-> provider, id |-> id, type |-> type, kind |-> kind,
     at |-> at, place |-> place]

At(code, name, fix, row) == [code |-> code, name |-> name, fix |-> fix, row |-> row]

Born == At(None, "born", FALSE, None)
BornDE == At("DEBOR", "born", TRUE, None)
BornNL == At("NLBOR", "born", TRUE, "born terminal")
Gothenburg == At(None, "gothenburg", TRUE, "port of gothenburg")
Fix == At(None, None, TRUE, None)

MCReports ==
    { Report("maersk", 1, "GATE_IN", "ACTUAL", 1, Born),
      Report("cma",    1, "GATE_IN", "ACTUAL", 2, BornNL),
      Report("cma",    2, "GATE_IN", "ACTUAL", 2, Born),
      Report("traqo",  1, "GATE_IN", "ACTUAL", 2, BornDE),
      Report("traqo",  1, "GATE_IN", "ACTUAL", 3, BornNL),
      Report("traqo",  2, "GATE_OUT", "ACTUAL", 2, Fix),
      Report("maersk", 2, "VESSEL_ARRIVED", "ESTIMATED", 2, Gothenburg),
      Report("maersk", 2, "VESSEL_ARRIVED", "ACTUAL", 4, Gothenburg),
      Report("cma",    3, "VESSEL_ARRIVED", "ACTUAL", 1, Gothenburg),
      Report("traqo",  3, "VESSEL_ARRIVED", "ACTUAL", Undated, Gothenburg),
      Report("cma",    4, "GATE_IN", "REQUESTED", 3, BornNL),
      Report("maersk", 3, "UNKNOWN", "ACTUAL", 4, Nowhere),
      Report("traqo",  4, "UNKNOWN", "ESTIMATED", 5, BornDE),
      Report("maersk", 4, "GATE_IN", "ACTUAL", Undated, Nowhere) }

MCSightings ==
    { [at |-> 4, place |-> At("SEGOT", "depot", FALSE, "depot"), source |-> "MANUAL"],
      [at |-> 2, place |-> Born, source |-> "MANUAL"],
      [at |-> 5, place |-> At(None, "gothenburg", FALSE, "port of gothenburg"),
       source |-> "TRACKING_EVENT"],
      [at |-> Undated, place |-> At("SEGOT", "depot", FALSE, "depot"), source |-> "MANUAL"] }

MCNames == {"born", "gothenburg", "depot"}
MCSimilar == {<<n, n>> : n \in MCNames}
             \cup {<<"gothenburg", "depot">>, <<"depot", "gothenburg">>}
MCLocations == {"born terminal", "port of gothenburg", "depot"}
MCCharted == {"port of gothenburg"}
MCCodes == {"DEBOR", "NLBOR", "SEGOT"}

=============================================================================
