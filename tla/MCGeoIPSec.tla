---------------------------- MODULE MCGeoIPSec ----------------------------
(***************************************************************************)
(* A private and a remote host; settings that are off, that allow one      *)
(* country, the other one, or what cannot be resolved; and ignore lists    *)
(* with and without the private host.                                      *)
(***************************************************************************)
EXTENDS GeoIPSec

MCFile ==
  { [enabled |-> on, perms |-> ps, ignored |-> ig] :
      <<on, ps>> \in {<<FALSE, {}>>, <<TRUE, {"A", geoDataLocal}>>,
                     <<TRUE, {"B", geoDataUnknown}>>},
      ig \in {{}, {"local"}} }
=============================================================================
