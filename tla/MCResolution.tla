---------------------------- MODULE MCResolution ----------------------------
\* Mapillary: two images, the first met again in a second batch, and a value
\* that is neither a valid nor a storable reference, with two slots for the
\* three of them.  An image URL expires, the token comes, goes or is refused.
EXTENDS Resolution

CONSTANTS image, other, bad, mapillary

MCProvider(r) == mapillary
MCBatches == <<{image, other, bad}, {image}>>
MCLimit(p) == 2
MCInterval(p) == 1
MCAnswers(r) ==
  IF r = image THEN {[status |-> "resolved", due |-> 1], [status |-> "requires_auth", due |-> Never]}
  ELSE {[status |-> "not_found", due |-> Never]}
=============================================================================
