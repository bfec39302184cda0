------------------------------ MODULE MCJsonText ------------------------------
(***************************************************************************)
(* Strings of up to five bytes, with a byte from each side of every limit  *)
(* that UTF-8, JSON and the code know.                                     *)
(***************************************************************************)
EXTENDS JsonText

Interesting == {0, 10, 27, 34, 65, 92, 127, 128, 143, 144, 159, 160, 191, 192, 193, 194,
                223, 224, 225, 226, 236, 237, 238, 239, 240, 241, 243, 244, 245, 255}
Leads    == {65, 194, 224, 226, 237, 239, 240, 241, 244, 245}
Trailing == {34, 128, 143, 144, 159, 160, 168, 191, 194}

MCValues ==
    {<<>>} \cup {<<a>> : a \in Interesting} \cup
    {<<a, b>> : a \in Interesting, b \in Interesting} \cup
    {<<a, b, c>> : a \in Leads, b \in Trailing, c \in Trailing} \cup
    {<<226, 128, b>> : b \in {167, 168, 169, 170}} \cup
    {<<a, b, c, d>> : a \in Leads \ {65, 194}, b \in Trailing, c \in {34, 128, 191},
                      d \in {128, 168, 191, 194, 240}} \cup
    {<<a, b, c, 195, 169>> : a \in Leads, b \in {128, 144, 226}, c \in {128, 195}}
=============================================================================
