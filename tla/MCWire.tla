------------------------------- MODULE MCWire -------------------------------
EXTENDS Wire

\* The second picture of the conversation cannot be resolved.
NoSecondPicture == {<<"image", 2>>}

\* A user turn without attachments, or with a video and a picture.
SomeAttachments == {<<>>, <<"video", "image">>}
=============================================================================
