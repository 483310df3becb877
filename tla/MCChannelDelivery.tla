-------------------------- MODULE MCChannelDelivery --------------------------
\* Four calls of the webhook with one message id.
EXTENDS ChannelDelivery
CONSTANTS r1, r2, r3, r4
=============================================================================
