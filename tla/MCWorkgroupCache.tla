------------------------- MODULE MCWorkgroupCache -------------------------
(* Three sessions of one query each: three callers that miss together  *)
(* and must share one fetch and one result, and a later caller that is  *)
(* served from the entry; a TTL of two ticks and a clock of four, so    *)
(* that an entry is served, expires and is fetched again.               *)
EXTENDS WorkgroupCache

CONSTANTS s1, s2, s3

MCSessions3 == {s1, s2, s3}

=============================================================================
