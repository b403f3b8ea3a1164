----------------------------- MODULE MCChatTasks -----------------------------
EXTENDS ChatTasks

\* A text task, and an image task whose message carries an uploaded image.
MCTasks == {1, 2}
MCImageTasks == {2}
=============================================================================
