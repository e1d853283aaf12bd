-------------------------- MODULE MCFrameStream --------------------------
\* The frames that follow another one: a large one and a small one.
EXTENDS FrameStream

FollowerSamples == {<<Identity(BasicHeaderFrame), 2>>, <<Identity(BasicAckFrame), 2>>}
=============================================================================
